---- MODULE Spec2Model ----
(***************************************************************************)
(* Model of the k-fault-resistant partitioning verifier:                   *)
(*   - the netlist loader and its topological linearization (Circuit.cpp), *)
(*   - the dual-trace unroller and the fault selectors (utils.cpp),        *)
(*   - Procedure 1 (partition refinement) and Procedure 2 (output          *)
(*     integrity) of check_k_fault_resistant_partitioning                  *)
(*     (k-partitions.cpp).                                                 *)
(* The SAT solver is external: a query is modelled by the set of its       *)
(* satisfying assignments, and check() answers SAT with any of them,       *)
(* UNSAT when there is none, or UNKNOWN.                                   *)
(***************************************************************************)
EXTENDS Integers, Sequences, FiniteSets, TLC

(***************************************************************************)
(* Signals and cells                                                       *)
(***************************************************************************)
\* signal_id_t: the four reserved constant ids
S_0 == 0
S_1 == 1
S_X == 2
S_Z == 3

ConstSigs == {S_0, S_1, S_X, S_Z}

\* cell_type_t classification (closed enumeration of cell kinds)
UnaryTypes == {"buf", "not"}
BinaryTypes == {"and", "or", "xor"}
MuxTypes == {"mux"}
RegTypes == {"dff_p", "dff_n", "dffr_p", "dffe_p", "dffer_p"}

is_unary(t) == t \in UnaryTypes
is_binary(t) == t \in BinaryTypes
is_multiplexer(t) == t \in MuxTypes
is_register(t) == t \in RegTypes
dff_has_reset(t) == t \in {"dffr_p", "dffer_p"}
dff_has_enable(t) == t \in {"dffe_p", "dffer_p"}
dff_clock_trigger(t) == t # "dff_n"

\* cell_type_from_string: CELL_NONE for a string that names no cell type
cell_type_from_string(str) ==
    IF str \in UnaryTypes \cup BinaryTypes \cup MuxTypes \cup RegTypes
    THEN str ELSE "CELL_NONE"

\* Cell: one record for all port variants; y is the shared output slot
\* (Y of a combinational cell, Q of a register); unused ports hold S_0.
Cell(t, a, b, s, c, d, r, e, y) ==
    [type |-> t, a |-> a, b |-> b, s |-> s, c |-> c, d |-> d, r |-> r, e |-> e, y |-> y]

UnaryPorts(t, a, y) == Cell(t, a, S_0, S_0, S_0, S_0, S_0, S_0, y)
BinaryPorts(t, a, b, y) == Cell(t, a, b, S_0, S_0, S_0, S_0, S_0, y)
MultiplexerPorts(t, a, b, s, y) == Cell(t, a, b, s, S_0, S_0, S_0, S_0, y)
DffPorts(t, c, d, q) == Cell(t, S_0, S_0, S_0, c, d, S_0, S_0, q)
DffrPorts(t, c, d, q, r) == Cell(t, S_0, S_0, S_0, c, d, r, S_0, q)
DffePorts(t, c, d, q, e) == Cell(t, S_0, S_0, S_0, c, d, S_0, e, q)
DfferPorts(t, c, d, q, r, e) == Cell(t, S_0, S_0, S_0, c, d, r, e, q)

\* the combinational input signals of a cell, and all the inputs of a register
CombInputs(cell) ==
    IF is_unary(cell.type) THEN {cell.a}
    ELSE IF is_binary(cell.type) THEN {cell.a, cell.b}
    ELSE IF is_multiplexer(cell.type) THEN {cell.a, cell.b, cell.s}
    ELSE {}

RegInputs(cell) ==
    IF ~is_register(cell.type) THEN {}
    ELSE {cell.c, cell.d}
         \cup (IF dff_has_reset(cell.type) THEN {cell.r} ELSE {})
         \cup (IF dff_has_enable(cell.type) THEN {cell.e} ELSE {})

\* Cell::eval on Booleans: combinational cells read the current state,
\* registers read the previous one; reset takes precedence over enable.
CellEval(cell, prev, cur) ==
    CASE cell.type = "buf" -> cur[cell.a]
      [] cell.type = "not" -> ~cur[cell.a]
      [] cell.type = "and" -> cur[cell.a] /\ cur[cell.b]
      [] cell.type = "or" -> cur[cell.a] \/ cur[cell.b]
      [] cell.type = "xor" -> cur[cell.a] # cur[cell.b]
      [] cell.type = "mux" -> IF cur[cell.s] THEN cur[cell.b] ELSE cur[cell.a]
      [] cell.type \in {"dff_p", "dff_n"} -> prev[cell.d]
      [] cell.type = "dffr_p" -> IF prev[cell.r] THEN FALSE ELSE prev[cell.d]
      [] cell.type = "dffe_p" -> IF prev[cell.e] THEN prev[cell.d] ELSE prev[cell.y]
      [] cell.type = "dffer_p" ->
            IF prev[cell.r] THEN FALSE
            ELSE IF prev[cell.e] THEN prev[cell.d] ELSE prev[cell.y]

(***************************************************************************)
(* A loaded circuit: [ins, outs, regs, cells], cells in the loader's order *)
(***************************************************************************)
CellOuts(cells) == {cells[i].y : i \in 1..Len(cells)}

CircSigs(circ) == ConstSigs \cup circ.ins \cup CellOuts(circ.cells)

\* Circuit::build_adjacent_lists.  The sets are objects of a heap: id 0 is
\* the null pointer, id 1 the shared set "empty", and the turn of the
\* backward pass on position n of sig_order allocates the sets regs (id
\* 2n) and outputs (id 2n + 1).  The result holds the two pointer maps
\* d_connected_regs and d_connected_outs (regs, outs), the heap, and ub:
\* whether a null pointer was dereferenced.
SigToCells(cells, sig) ==
    {i \in 1..Len(cells) : sig \in CombInputs(cells[i]) \cup RegInputs(cells[i])}

\* the same with the lists of the users inserted into the first of them
\* instead of the signal's own set
AdjChooseInPlace(list__set, own, new, heap) ==
    IF list__set = {} /\ own = {} THEN [ptr |-> 1, heap |-> heap]
    ELSE IF list__set = {} THEN [ptr |-> new, heap |-> [heap EXCEPT ![new] = own]]
    ELSE LET first == CHOOSE l \in list__set : \A m \in list__set : l <= m
         IN [ptr |-> first,
             heap |-> [heap EXCEPT ![first] = own \cup UNION {heap[l] : l \in list__set}]]

\* the four branches that choose the set a signal points to: the shared
\* empty set, its own new set, the one list of its users, or its own set
\* with the lists of its users inserted
AdjChoose(list__set, own, new, heap) ==
    IF list__set = {} /\ own = {} THEN [ptr |-> 1, heap |-> heap]
    ELSE IF list__set = {} THEN [ptr |-> new, heap |-> [heap EXCEPT ![new] = own]]
    ELSE IF Cardinality(list__set) = 1 /\ own = {}
    THEN [ptr |-> CHOOSE l \in list__set : TRUE, heap |-> heap]
    ELSE [ptr |-> new,
          heap |-> [heap EXCEPT ![new] = own \cup UNION {heap[l] : l \in list__set}]]

RECURSIVE AdjPass(_, _, _, _)
AdjPass(circ, order, n, acc) ==
    IF n = 0 THEN acc
    ELSE LET sig == order[n]
             users == SigToCells(circ.cells, sig)
             regUsers == {i \in users : is_register(circ.cells[i].type)}
             combUsers == users \ regUsers
             null == \E i \in combUsers : acc.regs[circ.cells[i].y] = 0
             reg_list__set ==
                 {l \in {acc.regs[circ.cells[i].y] : i \in combUsers} : acc.heap[l] # {}}
             output_list__set ==
                 {l \in {acc.outs[circ.cells[i].y] : i \in combUsers} : acc.heap[l] # {}}
             r == AdjChoose(reg_list__set, {circ.cells[i].y : i \in regUsers},
                            2 * n, acc.heap)
             o == AdjChoose(output_list__set, IF sig \in circ.outs THEN {sig} ELSE {},
                            2 * n + 1, r.heap)
         IN AdjPass(circ, order, n - 1,
                    [regs |-> [acc.regs EXCEPT ![sig] = r.ptr],
                     outs |-> [acc.outs EXCEPT ![sig] = o.ptr],
                     heap |-> o.heap,
                     ub |-> acc.ub \/ null])

RECURSIVE SetToSeq(_)
SetToSeq(S) ==
    IF S = {} THEN <<>>
    ELSE LET x == CHOOSE y \in S : \A z \in S : y <= z
         IN <<x>> \o SetToSeq(S \ {x})

SigOrder(circ) ==
    <<S_0, S_1, S_X, S_Z>> \o SetToSeq(circ.ins \ ConstSigs)
        \o [i \in 1..Len(circ.cells) |-> circ.cells[i].y]

build_adjacent_lists(circ) ==
    AdjPass(circ, SigOrder(circ), Len(SigOrder(circ)),
            [regs |-> [sig \in CircSigs(circ) |-> 0],
             outs |-> [sig \in CircSigs(circ) |-> 0],
             heap |-> [id \in 0..(2 * Len(SigOrder(circ)) + 1) |-> {}],
             ub |-> FALSE])

get_conn_regs(adj, sig) == adj.heap[adj.regs[sig]]
get_conn_outs(adj, sig) == adj.heap[adj.outs[sig]]

(***************************************************************************)
(* The dual-trace unroller (utils.cpp)                                     *)
(***************************************************************************)
CombOuts(circ) ==
    {circ.cells[i].y : i \in {j \in 1..Len(circ.cells) : ~is_register(circ.cells[j].type)}}

\* compute_faultable_signals with no included/excluded prefix: every signal
\* of the circuit, minus the inputs when exclude_inputs, minus
\* f_excluded_signals.
compute_faultable_signals(circ, f_excluded_signals, exclude_inputs) ==
    (CircSigs(circ) \ (IF exclude_inputs THEN circ.ins ELSE {})) \ f_excluded_signals

\* the signals that get a fault selector at cycle 0 (unroll_init_with_faults)
\* and at a cycle t > 0 (unroll_with_faults); registers never get one.
SelSigsInitAll(circ, f_sigs) == circ.ins \cup CombOuts(circ)

\* selectors at cycle 0 on the faultable input ports only
SelSigsInitInputs(circ, f_sigs) == circ.ins \cap f_sigs

SelSigsInit(circ, f_sigs) ==
    (circ.ins \cap f_sigs) \cup (CombOuts(circ) \cap f_sigs)

\* the selectors of a cycle t > 0 without the test on the alerts
SelSigsNextNoAlert(circ, adj, f_sigs, alert_signals) == (circ.ins \cap f_sigs) \cup (CombOuts(circ) \cap f_sigs)

SelSigsNext(circ, adj, f_sigs, alert_signals) ==
    (circ.ins \cap f_sigs)
    \cup {y \in CombOuts(circ) \cap f_sigs : get_conn_outs(adj, y) \cap alert_signals # {}}

SelSigsAt(circ, adj, f_sigs, alert_signals, cycle) ==
    IF cycle = 0 THEN SelSigsInit(circ, f_sigs)
    ELSE SelSigsNext(circ, adj, f_sigs, alert_signals)

\* fault_spec_t::induce_fault: the four clauses force y = normal XOR f0
induce_fault(normal, f0) == normal # f0

\* init_constants: 0 -> 0, 1 -> 1, X -> 0, Z -> 0
init_constants(circ) == [sig \in CircSigs(circ) |-> sig = S_1]

\* the loop over circuit.cells() of the two unrollers: evaluates the cells
\* in order into cur; flips are the signals whose selector is true on this
\* trace at this cycle (none on the golden trace).
RECURSIVE EvalCells(_, _, _, _, _, _)
EvalCells(cells, i, prev, cur, flips, skipRegs) ==
    IF i > Len(cells) THEN cur
    ELSE IF is_register(cells[i].type) /\ skipRegs
    THEN EvalCells(cells, i + 1, prev, cur, flips, skipRegs)
    ELSE LET c == cells[i]
             v == CellEval(c, prev, cur)
             out == IF is_register(c.type) THEN v
                    ELSE induce_fault(v, c.y \in flips)
         IN EvalCells(cells, i + 1, prev, [cur EXCEPT ![c.y] = out], flips, skipRegs)

\* one trace of unroll_init_with_faults (cycle 0): the inputs take the
\* golden input variables gin, through induce_fault where the trace has a
\* selector; the registers take the trace's own free variables regvals
TraceInit(circ, gin, regvals, flips) ==
    LET base == init_constants(circ)
        s0 == [sig \in CircSigs(circ) |->
                 IF sig \in circ.regs THEN regvals[sig]
                 ELSE IF sig \in circ.ins THEN induce_fault(gin[sig], sig \in flips)
                 ELSE base[sig]]
    IN EvalCells(circ.cells, 1, base, s0, flips, TRUE)

\* one trace of unroll_with_faults (cycle t > 0) from its previous state
TraceNext(circ, prevst, gin, flips) ==
    LET base == init_constants(circ)
        s0 == [sig \in CircSigs(circ) |->
                 IF sig \in circ.ins THEN induce_fault(gin[sig], sig \in flips)
                 ELSE base[sig]]
    IN EvalCells(circ.cells, 1, prevst, s0, flips, FALSE)

\* unroll_init_with_faults: the golden trace has no selector
unroll_init_with_faults(circ, gin, greg, freg, flips) ==
    [g |-> TraceInit(circ, gin, greg, {}), f |-> TraceInit(circ, gin, freg, flips)]

\* unroll_with_faults
unroll_with_faults(circ, prevst, gin, flips) ==
    [g |-> TraceNext(circ, prevst.g, gin, {}), f |-> TraceNext(circ, prevst.f, gin, flips)]

\* the states of cycles 0..cycle of one trace (sequence index = cycle + 1);
\* gin and flips are indexed by cycle
RECURSIVE TraceTo(_, _, _, _, _)
TraceTo(circ, gin, regvals, flips, cycle) ==
    IF cycle = 0 THEN <<TraceInit(circ, gin[0], regvals, flips[0])>>
    ELSE LET tr == TraceTo(circ, gin, regvals, flips, cycle - 1)
         IN Append(tr, TraceNext(circ, tr[cycle], gin[cycle], flips[cycle]))

\* assert_invariants_at_step: one unit clause per invariant bit, on the
\* golden state of the given step.  An invariant is a <<signal, bit>> pair.
assert_invariants_at_step(golden_trace, invariant_list, step) ==
    \A inv \in invariant_list : golden_trace[step + 1][inv[1]] = inv[2]

\* assert_no_alert_at_step, for one of the two traces: the alert bits
\* equal their safe value.  An alert is a <<signal, safe bit>> pair.
NoAlertAtStep(trace, alert_list, step) ==
    \A al \in alert_list : trace[step + 1][al[1]] = al[2]

assert_no_alert_at_step(golden_trace, faulty_trace, alert_list, step) ==
    /\ NoAlertAtStep(golden_trace, alert_list, step)
    /\ NoAlertAtStep(faulty_trace, alert_list, step)

(***************************************************************************)
(* The solver queries of the two procedures.  The free solver variables    *)
(* are the golden inputs of every cycle, the golden and faulty register    *)
(* values of cycle 0 and the fault selectors; everything else is a gate    *)
(* output.  conf is the configuration record CONF, with the derived        *)
(* faultable_sigs.                                                         *)
(***************************************************************************)
alert_signals_of(conf) == {al[1] : al \in conf.alert_list}

Max(a, b) == IF a >= b THEN a ELSE b

Min(a, b) == IF a <= b THEN a ELSE b

\* Procedure 1 unrolls cycles 0..max(1, delay), Procedure 2 cycles 0..delay
Horizon1(conf) == Max(1, conf.delay)

Horizon2(conf) == conf.delay

\* all the ways to set the selectors of cycles 0..n-1 with at most cap true
\* per cycle (sequence index = cycle + 1)
RECURSIVE FlipSeqs(_, _, _, _, _)
FlipSeqs(circ, adj, conf, n, cap) ==
    IF n = 0 THEN {<<>>}
    ELSE LET sel == SelSigsAt(circ, adj, conf.faultable_sigs, alert_signals_of(conf), n - 1)
         IN {Append(fs, x) : fs \in FlipSeqs(circ, adj, conf, n - 1, cap),
                             x \in {z \in SUBSET sel : Cardinality(z) <= cap}}

RECURSIVE SumCard(_, _)
SumCard(fs, from) ==
    IF from > Len(fs) THEN 0 ELSE Cardinality(fs[from]) + SumCard(fs, from + 1)

\* the indices of a difference vector that are true between a golden and a
\* faulty state; an entry of partitions_diff is kept as the set of
\* registers whose golden/faulty XORs it is the OR of
TrueDiffs(diffvec, g, f) ==
    {i \in 1..Len(diffvec) : \E r \in diffvec[i] : g[r] # f[r]}

\* the inputs some clause can depend on: those a cell evaluates, an output,
\* an alert or an invariant.  The value of any other input variable is in
\* no clause but those of its own selector.
ReadIns(circ, conf) ==
    {i \in circ.ins :
        \/ \E n \in 1..Len(circ.cells) :
              i \in CombInputs(circ.cells[n]) \cup (RegInputs(circ.cells[n]) \ {circ.cells[n].c})
        \/ i \in circ.outs \cup alert_signals_of(conf) \cup {inv[1] : inv \in conf.invariant_list}}

\* the golden halves of the models of the clauses asserted while
\* unrolling: values of the golden input variables of cycles 0..horizon
\* (an input no clause depends on is left false) and of the golden
\* registers of cycle 0 whose trace satisfies the invariants at cycle 0 and
\* raises no alert
GoldenRuns(circ, conf, horizon) ==
    LET read == ReadIns(circ, conf)
        none == [c \in 0..horizon |-> {}]
    IN {g \in {[gin |-> [c \in 0..horizon |->
                           [i \in circ.ins |-> IF i \in read THEN v[c][i] ELSE FALSE]],
                greg |-> greg] :
                  v \in [0..horizon -> [read -> BOOLEAN]],
                  greg \in [circ.regs -> BOOLEAN]} :
           LET tr == TraceTo(circ, g.gin, g.greg, none, horizon)
           IN /\ assert_invariants_at_step(tr, conf.invariant_list, 0)
              /\ \A step \in 0..horizon : NoAlertAtStep(tr, conf.alert_list, step)}

\* the register sets differing at cycle 0 when the bound on the
\* differing partitions is left out
DiffSetsAny(circ, perm, pd0, k_f_part) ==
    {z \in SUBSET circ.regs : z \cap perm.noDiff = {}}

\* the register difference sets d (faulty register = golden register XOR
\* (r \in d) at cycle 0) that satisfy the permanent unit clauses on the
\* difference variables and at_most(pd0, k_f_part): the true entries of pd0
\* are those that hold a register of d
DiffSets(circ, perm, pd0, k_f_part) ==
    {z \in SUBSET circ.regs :
        /\ z \cap perm.noDiff = {}
        /\ Cardinality({i \in 1..Len(pd0) : pd0[i] \cap z # {}}) <= k_f_part}

\* the selector settings of cycles 0..horizon, as a function of the cycle,
\* that satisfy the permanent unit clauses on the cycle-0 selectors
FlipChoices(circ, adj, conf, horizon, perm, cap) ==
    {[c \in 0..horizon |-> fs[c + 1]] :
        fs \in {z \in FlipSeqs(circ, adj, conf, horizon + 1, cap) :
                  z[1] \cap perm.noFault = {}}}

\* Procedure 1 query: the assumptions at_most(comb_fault_vars[0],
\* k_f_comb_init), at_most(comb_fault_vars[1], k_f_comb_next),
\* at_most(partitions_diff[0], k_f_part), at_least(partitions_diff[1],
\* k_faults + 1) on top of the permanent clauses.  The result is what the
\* driver can read from a model: the true selectors of each cycle (comb)
\* and the true entries of partitions_diff[0] (init) and [1] (next).
Answers1(circ, adj, conf, pd0, pd1, perm, k_faults, k_f_part, k_f_comb_init, k_f_comb_next) ==
    LET H == Horizon1(conf)
        ds == DiffSets(circ, perm, pd0, k_f_part)
        fss == {fl \in FlipChoices(circ, adj, conf, H, perm, Max(k_f_comb_init, k_f_comb_next)) :
                   /\ Cardinality(fl[0]) <= k_f_comb_init
                   /\ SumCard([i \in 1..H |-> fl[i]], 1) <= k_f_comb_next}
        wit(g) ==
            LET gtr == TraceTo(circ, g.gin, g.greg, [c \in 0..H |-> {}], H)
                one(d, fl) ==
                    LET ftr == TraceTo(circ, g.gin,
                                       [r \in circ.regs |-> g.greg[r] # (r \in d)], fl, H)
                        next == TrueDiffs(pd1, gtr[2], ftr[2])
                    IN IF /\ \A step \in 0..H : NoAlertAtStep(ftr, conf.alert_list, step)
                          /\ Cardinality(next) >= k_faults + 1
                       THEN {[comb |-> fl, init |-> TrueDiffs(pd0, gtr[1], ftr[1]),
                              next |-> next]}
                       ELSE {}
            IN UNION {one(d, fl) : d \in ds, fl \in fss}
    IN IF Len(pd1) < k_faults + 1 THEN {}
       ELSE UNION {wit(g) : g \in GoldenRuns(circ, conf, H)}

\* primary_outputs = outs \ alert_signals
primary_outputs_of(circ, conf) == circ.outs \ alert_signals_of(conf)

\* Procedure 2 query: at_most(comb_fault_vars[0] ++ comb_fault_vars[1],
\* k_f_comb), at_most(partitions_diff[0], k_f_part) and OR(output_diff)
\* at cycle 0.  The result is what the driver can read from a model: the
\* true selectors of each cycle (comb) and the true entries of
\* partitions_diff[0] (init).
Answers2(circ, adj, conf, pd0, perm, k_f_part, k_f_comb) ==
    LET H == Horizon2(conf)
        ds == DiffSets(circ, perm, pd0, k_f_part)
        fss == {fl \in FlipChoices(circ, adj, conf, H, perm, k_f_comb) :
                   SumCard([i \in 1..(H + 1) |-> fl[i - 1]], 1) <= k_f_comb}
        wit(g) ==
            LET gtr == TraceTo(circ, g.gin, g.greg, [c \in 0..H |-> {}], H)
                one(d, fl) ==
                    LET ftr == TraceTo(circ, g.gin,
                                       [r \in circ.regs |-> g.greg[r] # (r \in d)], fl, H)
                    IN IF /\ \A step \in 0..H : NoAlertAtStep(ftr, conf.alert_list, step)
                          /\ \E o \in primary_outputs_of(circ, conf) : gtr[1][o] # ftr[1][o]
                       THEN {[comb |-> fl, init |-> TrueDiffs(pd0, gtr[1], ftr[1]),
                              next |-> {}]}
                       ELSE {}
            IN UNION {one(d, fl) : d \in ds, fl \in fss}
    IN UNION {wit(g) : g \in GoldenRuns(circ, conf, H)}

(***************************************************************************)
(* Partitions (utils.cpp) and the loops of the procedures                  *)
(***************************************************************************)
\* init_partitions_from_scratch: one partition per register
init_partitions_from_scratch(circ) ==
    LET regs == SetToSeq(circ.regs)
    IN [i \in 1..Len(regs) |-> {regs[i]}]

\* the vectors partitions_diff[0] and partitions_diff[1] built before the
\* loops: entry i is the OR over the registers of partition i
BuildPartitionsDiff(partitions) == [i \in 1..Len(partitions) |-> partitions[i]]

\* m_reg_partidx of optim_at_least_2_conn_parts
RegPartIdx(partitions, reg) ==
    CHOOSE i \in 1..Len(partitions) : reg \in partitions[i]

\* a set of adjacent registers lies in at most one partition
AtMostOnePart(partitions, adjacent_regs) ==
    \/ Cardinality(adjacent_regs) <= 1
    \/ \A r1, r2 \in adjacent_regs :
          RegPartIdx(partitions, r1) = RegPartIdx(partitions, r2)

\* optim_at_least_2_conn_parts: the permanent unit clauses it adds, as the
\* new perm
optim_at_least_2_conn_parts(circ, adj, partitions, initial_comb_faults, pd0, perm) ==
    LET adjacent(idx) == UNION {get_conn_regs(adj, sig) : sig \in partitions[idx]}
        pruned == {idx \in 1..Len(partitions) : AtMostOnePart(partitions, adjacent(idx))}
        prunedSigs == {sig \in initial_comb_faults :
                          AtMostOnePart(partitions, get_conn_regs(adj, sig))}
    IN [noDiff |-> perm.noDiff \cup UNION {pd0[idx] : idx \in pruned},
        noFault |-> perm.noFault \cup prunedSigs]

\* the innermost loop with the bound k_f_comb_next <= k_f_comb
RECURSIVE Triples1NextUpToComb(_, _, _)
Triples1NextUpToComb(k_faults, k_f_comb, k_f_comb_next) ==
    IF k_f_comb_next > k_f_comb THEN <<>>
    ELSE <<[k_faults |-> k_faults, k_f_comb |-> k_f_comb, k_f_comb_next |-> k_f_comb_next]>>
         \o Triples1NextUpToComb(k_faults, k_f_comb, k_f_comb_next + 1)

\* the (k_faults, k_f_comb, k_f_comb_next) triples in the order of the three
\* nested loops of Procedure 1
RECURSIVE Triples1Next(_, _, _)
Triples1Next(k_faults, k_f_comb, k_f_comb_next) ==
    IF k_f_comb_next > Min(k_faults - 1, k_f_comb) THEN <<>>
    ELSE <<[k_faults |-> k_faults, k_f_comb |-> k_f_comb, k_f_comb_next |-> k_f_comb_next]>>
         \o Triples1Next(k_faults, k_f_comb, k_f_comb_next + 1)

RECURSIVE Triples1Comb(_, _)
Triples1Comb(k_faults, k_f_comb) ==
    IF k_f_comb < 0 THEN <<>>
    ELSE Triples1Next(k_faults, k_f_comb, 0) \o Triples1Comb(k_faults, k_f_comb - 1)

RECURSIVE Triples1From(_, _)
Triples1From(conf, k_faults) ==
    IF k_faults > conf.k THEN <<>>
    ELSE Triples1Comb(k_faults, IF conf.f_gates = "SEQ" THEN 0 ELSE k_faults)
         \o Triples1From(conf, k_faults + 1)

Triples1(conf) == Triples1From(conf, IF conf.increasing_k THEN 1 ELSE conf.k)

k_f_part_of(t) == t.k_faults - t.k_f_comb

k_f_comb_init_of(t) == t.k_f_comb - t.k_f_comb_next

\* the (k_faults, k_f_comb) pairs in the order of the loops of Procedure 2
RECURSIVE Pairs2Comb(_, _, _)
Pairs2Comb(k_faults, k_f_comb, max_k_f_comb) ==
    IF k_f_comb > max_k_f_comb THEN <<>>
    ELSE <<[k_faults |-> k_faults, k_f_comb |-> k_f_comb]>>
         \o Pairs2Comb(k_faults, k_f_comb + 1, max_k_f_comb)

RECURSIVE Pairs2From(_, _)
Pairs2From(conf, k_faults) ==
    IF k_faults > conf.k THEN <<>>
    ELSE Pairs2Comb(k_faults, 0, IF conf.f_gates = "SEQ" THEN 0 ELSE k_faults)
         \o Pairs2From(conf, k_faults + 1)

Pairs2(conf) == Pairs2From(conf, IF conf.increasing_k THEN 1 ELSE conf.k)

\* the orders in which rand() can draw the faulty indexes
RECURSIVE Orders(_)
Orders(S) ==
    IF S = {} THEN {<<>>}
    ELSE UNION {{<<x>> \o o : o \in Orders(S \ {x})} : x \in S}

\* a bucket for every index
BucketsOfOne(order, k_faults, fi, merged_indexes) == [i \in 1..Len(order) |-> <<order[i]>>]

\* the bucketing loop of the merge strategy: position fi (from 0) opens a
\* new bucket when fi >= next_bucket, next_bucket being the number of
\* buckets so far times |faulty| / k_faults
RECURSIVE Buckets(_, _, _, _)
Buckets(order, k_faults, fi, merged_indexes) ==
    IF fi >= Len(order) THEN merged_indexes
    ELSE LET opened == IF fi * k_faults >= Len(merged_indexes) * Len(order)
                       THEN Append(merged_indexes, <<>>) ELSE merged_indexes
             last == Len(opened)
         IN Buckets(order, k_faults, fi + 1,
                    [opened EXCEPT ![last] = Append(opened[last], order[fi + 1])])

\* erase of the merged-away entries, ascending, at fi - num_removed
RECURSIVE EraseRemoved(_, _, _)
EraseRemoved(vec, removed_next, num_removed) ==
    IF removed_next = {} THEN vec
    ELSE LET fi == CHOOSE x \in removed_next : \A z \in removed_next : x <= z
             at == fi - num_removed
         IN EraseRemoved(SubSeq(vec, 1, at - 1) \o SubSeq(vec, at + 1, Len(vec)),
                         removed_next \ {fi}, num_removed + 1)

SeqRange(sq) == {sq[i] : i \in 1..Len(sq)}

\* the merge strategy without the erase loop
MergeVectorKeep(vec, merged_indexes, removed_next) ==
    vec \o [b \in 1..Len(merged_indexes) |->
              UNION {vec[fi] : fi \in SeqRange(merged_indexes[b])}]

\* the merge strategy on one vector (partitions, partitions_diff[0] or
\* partitions_diff[1]): one appended entry per bucket, the union (OR) of
\* its members, then the merged-away entries erased
MergeVector(vec, merged_indexes, removed_next) ==
    EraseRemoved(vec \o [b \in 1..Len(merged_indexes) |->
                            UNION {vec[fi] : fi \in SeqRange(merged_indexes[b])}],
                 removed_next, 0)

\* init_partitions_from_file: the JSON object read in the order of its
\* items, each array turned into a set
init_partitions_from_file(jdata) ==
    [i \in 1..Len(jdata) |-> SeqRange(jdata[i])]

\* the assertions of init_partitions_from_file
FileAsserts(circ, jdata) ==
    /\ \A i \in 1..Len(jdata) : jdata[i] # <<>>
    /\ \A i \in 1..Len(jdata) : SeqRange(jdata[i]) \subseteq circ.regs
    /\ Cardinality(UNION {SeqRange(jdata[i]) : i \in 1..Len(jdata)}) = Cardinality(circ.regs)

\* the partitioning file written at the end of a triple: key part_idx,
\* value the array of the partition's registers
dump_partitioning(partitions) ==
    [i \in 1..Len(partitions) |-> SetToSeq(partitions[i])]

\* #define MAX_ITER 2000
MAX_ITER == 2000

\* the merge strategy applied to the partitions only
MergePartitionsOnly(parts, pdiff, faulty_indexes_next, order, k_faults) ==
    LET merged_indexes == Buckets(order, k_faults, 0, <<>>)
    IN [partitions |-> MergeVector(parts, merged_indexes, faulty_indexes_next),
        partitions_diff |-> pdiff]

\* the merge strategy on a SAT witness: the new partitions and the two
\* difference vectors
MergePartitions(parts, pdiff, faulty_indexes_next, order, k_faults) ==
    LET merged_indexes == Buckets(order, k_faults, 0, <<>>)
    IN [partitions |-> MergeVector(parts, merged_indexes, faulty_indexes_next),
        partitions_diff |-> <<MergeVector(pdiff[1], merged_indexes, faulty_indexes_next),
                              MergeVector(pdiff[2], merged_indexes, faulty_indexes_next)>>]

\* the permanent clauses after the optimisation and the forbid clauses at
\* the head of an iteration of Procedure 1
P1IterPerm(circ, ad, conf, parts, pdiff, clauses, enumerated) ==
    LET p1 == IF conf.optim_atleast2
              THEN optim_at_least_2_conn_parts(circ, ad, parts,
                       SelSigsInit(circ, conf.faultable_sigs), pdiff[1], clauses)
              ELSE clauses
    IN IF conf.enumerate_exploitable
       THEN [p1 EXCEPT !.noFault = @ \cup enumerated] ELSE p1

\* the witnesses of the models of the query of an iteration of Procedure 1
Query1(circ, ad, conf, parts, pdiff, clauses, enumerated, t) ==
    Answers1(circ, ad, conf, pdiff[1], pdiff[2],
             P1IterPerm(circ, ad, conf, parts, pdiff, clauses, enumerated),
             t.k_faults, k_f_part_of(t), k_f_comb_init_of(t), t.k_f_comb_next)

\* the assertions on the values read from a model in Procedure 1
P1WitnessAsserts(w, t) ==
    /\ \A c \in DOMAIN w.comb : Cardinality(w.comb[c]) <= t.k_f_comb
    /\ Cardinality(w.init) <= k_f_part_of(t)
    /\ Cardinality(w.next) > t.k_faults

\* the optimisations before the loops of Procedure 2: no difference in a
\* partition and no cycle-0 fault on a signal that reaches no primary output
P2Optimizations(circ, ad, conf, parts, pd0) ==
    LET po == primary_outputs_of(circ, conf)
        conn_outs(idx) == UNION {get_conn_outs(ad, sig) : sig \in parts[idx]}
    IN [noDiff |-> UNION {pd0[idx] : idx \in {x \in 1..Len(parts) : conn_outs(x) \cap po = {}}},
        noFault |-> {sig \in SelSigsInit(circ, conf.faultable_sigs) :
                        get_conn_outs(ad, sig) \cap po = {}}]

\* the permanent clauses after the forbid clauses at the head of an
\* iteration of Procedure 2
P2IterPerm(pd0, clauses, enumerated, enumerated_parts) ==
    [noDiff |-> clauses.noDiff \cup UNION {pd0[idx] : idx \in enumerated_parts},
     noFault |-> clauses.noFault \cup enumerated]

\* the witnesses of the models of the query of an iteration of Procedure 2
Query2(circ, ad, conf, pd0, clauses, enumerated, enumerated_parts, t) ==
    Answers2(circ, ad, conf, pd0, P2IterPerm(pd0, clauses, enumerated, enumerated_parts),
             k_f_part_of(t), t.k_f_comb)

\* the assertions on the values read from a model in Procedure 2
P2WitnessAsserts(w, t) ==
    /\ \A c \in DOMAIN w.comb : Cardinality(w.comb[c]) <= t.k_f_comb
    /\ Cardinality(w.init) <= k_f_part_of(t)

\* what value() can give for the selectors and the difference variables
\* when check() did not produce a model
ValuesWithoutModel(circ, ad, conf, pd0) ==
    {[comb |-> cf, init |-> ini, next |-> {}] :
        cf \in {f \in [0..Horizon2(conf) -> SUBSET SelSigsInit(circ, conf.faultable_sigs)] :
                  \A c \in 0..Horizon2(conf) :
                     f[c] \subseteq SelSigsAt(circ, ad, conf.faultable_sigs,
                                             alert_signals_of(conf), c)},
        ini \in SUBSET (1..Len(pd0))}

(***************************************************************************)
(* The circuits and configurations the analysis is run on                  *)
(***************************************************************************)
\* config_t, with faultable_sigs as check_k_fault_resistant_partitioning
\* derives it and initial_partition as the content of the file at
\* initial_partition_path (<<>> when the path is empty)
Conf(k, delay, increasing_k, f_gates, enumerate_exploitable, optim_atleast2, procedure, faultable_sigs, alert_list, initial_partition) ==
    [k |-> k, delay |-> delay, increasing_k |-> increasing_k, f_gates |-> f_gates,
     enumerate_exploitable |-> enumerate_exploitable,
     optim_atleast2 |-> optim_atleast2, procedure |-> procedure,
     faultable_sigs |-> faultable_sigs, alert_list |-> alert_list,
     invariant_list |-> {}, initial_partition |-> initial_partition]

\* three registers a = 5, c = 6 (both holding) and x = 7 (loading a), the
\* alert 8 = a XOR c and the primary output 9 = BUF x; clock 4
CircA ==
    [ins |-> {4}, outs |-> {8, 9}, regs |-> {5, 6, 7},
     cells |-> <<DffPorts("dff_p", 4, 5, 5), DffPorts("dff_p", 4, 6, 6),
                 DffPorts("dff_p", 4, 5, 7), BinaryPorts("xor", 5, 6, 8),
                 UnaryPorts("buf", 7, 9)>>]

AlertsA == {<<8, FALSE>>}

\* two registers 6 and 7 loading the input 5, the primary output
\* 8 = 6 XOR 7; clock 4
CircB ==
    [ins |-> {4, 5}, outs |-> {8}, regs |-> {6, 7},
     cells |-> <<DffPorts("dff_p", 4, 5, 6), DffPorts("dff_p", 4, 5, 7),
                 BinaryPorts("xor", 6, 7, 8)>>]

\* two holding registers 5 and 6 with the primary outputs 10 = BUF 5 and
\* 11 = BUF 6, a register 7 loading 8 = 5 OR 6, and the alert 9 = BUF 7
\* that fires one cycle after a register is set; clock 4
CircC ==
    [ins |-> {4}, outs |-> {9, 10, 11}, regs |-> {5, 6, 7},
     cells |-> <<DffPorts("dff_p", 4, 5, 5), DffPorts("dff_p", 4, 6, 6),
                 DffPorts("dff_p", 4, 8, 7), BinaryPorts("or", 5, 6, 8),
                 UnaryPorts("buf", 7, 9), UnaryPorts("buf", 5, 10),
                 UnaryPorts("buf", 6, 11)>>]

AlertsC == {<<9, FALSE>>}

\* a holding register 5, a register 6 loading it, the primary output
\* 7 = BUF 6; clock 4
CircD ==
    [ins |-> {4}, outs |-> {7}, regs |-> {5, 6},
     cells |-> <<DffPorts("dff_p", 4, 5, 5), DffPorts("dff_p", 4, 5, 6),
                 UnaryPorts("buf", 6, 7)>>]

\* bound on the attack order k of the configurations
MaxK == 2

\* bound on the number of times check() gives up (STATE_UNKNOWN) in a run
MaxUnknown == 1


\* CircA with no faultable signal, Procedure 1 alone
ScenariosA ==
    {[circ |-> CircA,
      conf |-> Conf(k, 1, inc, fg, FALSE, opt, "PROC_1",
                    compute_faultable_signals(CircA, CircSigs(CircA), FALSE),
                    AlertsA, <<>>)] :
        k \in 0..MaxK, inc \in BOOLEAN, opt \in BOOLEAN, fg \in {"SEQ", "ALL"}}

\* CircB with faults on the output and, unless exclude_inputs, on the
\* input; and with no fault allowed at all
ScenariosB ==
    {[circ |-> CircB,
      conf |-> Conf(1, d, TRUE, "ALL", en, TRUE, "BOTH",
                    compute_faultable_signals(CircB, {4}, xi), {}, <<>>)] :
        d \in {0, 1}, en \in BOOLEAN, xi \in BOOLEAN}
    \cup
    {[circ |-> CircB,
      conf |-> Conf(0, 0, inc, "ALL", FALSE, TRUE, "BOTH",
                    compute_faultable_signals(CircB, {4}, FALSE), {}, <<>>)] :
        inc \in BOOLEAN}

\* CircC with faults on the alert signal only or on no signal, Procedure 2
\* alone
ScenariosC ==
    {[circ |-> CircC,
      conf |-> Conf(k, 1, inc, "ALL", FALSE, TRUE, "PROC_2",
                    compute_faultable_signals(CircC, CircSigs(CircC) \ f, FALSE),
                    AlertsC, <<>>)] : k \in 0..MaxK, inc \in BOOLEAN, f \in {{9}, {}}}

Scenarios == ScenariosA \cup ScenariosB \cup ScenariosC

\* CircD with no faultable signal in enumeration mode: a fault in register
\* 5 reaches two partitions, and no clause ever forbids it
ScenariosD ==
    {[circ |-> CircD,
      conf |-> Conf(k, 1, TRUE, "SEQ", TRUE, FALSE, proc,
                    compute_faultable_signals(CircD, CircSigs(CircD), FALSE),
                    {}, <<>>)] : k \in 0..MaxK, proc \in {"BOTH", "PROC_2"}}

(***************************************************************************)
(* check_k_fault_resistant_partitioning (k-partitions.cpp)                 *)
(***************************************************************************)
VARIABLES
    circuit,        \* the loaded circuit
    CONF,           \* the configuration
    ndebug,         \* the build compiles the assertions out
    adj,            \* conn_regs / conn_outs
    partitions,
    partitions_diff,
    perm,           \* the permanent unit clauses of the solver
    answers,        \* the witnesses of the models of the pending query
    solver_iter,
    pos,            \* position of the loops: index of the triple or pair
    res,            \* the value check() returned last
    enumerate_comb_faults,
    enumerate_faulty_partitions,
    unknowns,       \* how often check() has given up
    rerun,          \* this run starts from the partitioning file of a previous run
    hist,           \* what the last check and the last loop did
    pc,
    netlist,        \* the netlist handed to the Circuit constructor
    ld,             \* the members and locals of the Circuit constructor
    sat             \* the variables and clauses of a solver of its own

vars == <<circuit, CONF, ndebug, adj, partitions, partitions_diff, perm, answers,
          solver_iter, pos, res, enumerate_comb_faults, enumerate_faulty_partitions,
          unknowns, rerun, hist, pc, netlist, ld, sat>>

loaderVars == <<netlist, ld, sat>>

inputVars == <<circuit, CONF, ndebug, rerun>>

NoWitness == [comb |-> <<>>, init |-> {}, next |-> {}]

NoPerm == [noDiff |-> {}, noFault |-> {}]

\* hist: proc, the procedure of the last check; read, the driver read model
\* values after it; w, what it read; prev_comb and prev_parts, the
\* enumerated sets before it recorded them; iters, the checks made by the
\* current loop; exit, exit_proc and exit_iters, how the last loop ended,
\* of which procedure and after how many checks; merges, the merges of
\* Procedure 1; sat1 and sat2, a check of the procedure returned SAT;
\* queries1 and queries2, the checks of each procedure; incomplete, a loop
\* of Procedure 1 ended on UNKNOWN or on MAX_ITER; p1_done, Procedure 1 ran
\* to its end; start, the partitioning before Procedure 1; first_complete,
\* the previous run was not incomplete
NoHist ==
    [proc |-> 0, read |-> FALSE, w |-> NoWitness, prev_comb |-> {}, prev_parts |-> {},
     iters |-> 0, exit |-> "none", exit_proc |-> 0, exit_iters |-> 0, merges |-> 0,
     sat1 |-> FALSE, sat2 |-> FALSE,
     queries1 |-> 0, queries2 |-> 0, incomplete |-> FALSE, p1_done |-> FALSE,
     start |-> <<>>, first_complete |-> FALSE]

InitWith(scenarios) ==
    /\ \E sc \in scenarios : circuit = sc.circ /\ CONF = sc.conf
    /\ ndebug \in BOOLEAN
    /\ adj = <<>>
    /\ partitions = <<>>
    /\ partitions_diff = <<>>
    /\ perm = NoPerm
    /\ answers = {}
    /\ solver_iter = 0
    /\ pos = 0
    /\ res = "SAT"
    /\ enumerate_comb_faults = {}
    /\ enumerate_faulty_partitions = {}
    /\ unknowns = 0
    /\ rerun = FALSE
    /\ hist = NoHist
    /\ pc = "start"
    /\ netlist = <<>>
    /\ ld = <<>>
    /\ sat = <<>>

Init == InitWith(Scenarios)

InitIter == InitWith(ScenariosD)

\* from the start of check_k_fault_resistant_partitioning to the first
\* procedure: adjacency lists, initial partitioning, solver_iter = 0
Setup ==
    /\ pc = "start"
    /\ adj' = build_adjacent_lists(circuit)
    /\ solver_iter' = 0
    /\ IF CONF.initial_partition = <<>>
       THEN /\ partitions' = init_partitions_from_scratch(circuit)
            /\ pc' = IF CONF.procedure # "PROC_2" THEN "proc1" ELSE "proc2"
       ELSE /\ partitions' = init_partitions_from_file(CONF.initial_partition)
            /\ pc' = IF ~ndebug /\ ~FileAsserts(circuit, CONF.initial_partition)
                     THEN "abort"
                     ELSE IF CONF.procedure # "PROC_2" THEN "proc1" ELSE "proc2"
    /\ hist' = [hist EXCEPT !.start = partitions']
    /\ UNCHANGED <<inputVars, partitions_diff, perm, answers, pos, res,
                   enumerate_comb_faults, enumerate_faulty_partitions, unknowns,
                   loaderVars>>

\* Procedure 1 up to its loops: a new solver, the unrolled traces, the
\* difference vectors of cycles 0 and 1
P1Begin ==
    /\ pc = "proc1"
    /\ perm' = NoPerm
    /\ partitions_diff' = <<BuildPartitionsDiff(partitions), BuildPartitionsDiff(partitions)>>
    /\ enumerate_comb_faults' = {}
    /\ pos' = 1
    /\ pc' = "p1_triple"
    /\ UNCHANGED <<inputVars, adj, partitions, answers, solver_iter, res,
                   enumerate_faulty_partitions, unknowns, hist, loaderVars>>

\* the query the next iteration of Procedure 1 will ask, if there is one
NextQuery1(parts, pdiff, clauses, enumerated, iter) ==
    IF iter < MAX_ITER
    THEN Query1(circuit, adj, CONF, parts, pdiff, clauses, enumerated, Triples1(CONF)[pos])
    ELSE {}

\* the head of the body of the three loops: res = STATE_SAT and the
\* initialiser solver_iter++ of the iteration loop
P1EnterTriple ==
    /\ pc = "p1_triple"
    /\ pos <= Len(Triples1(CONF))
    /\ res' = "SAT"
    /\ solver_iter' = solver_iter + 1
    /\ answers' = NextQuery1(partitions, partitions_diff, perm, enumerate_comb_faults,
                             solver_iter + 1)
    /\ hist' = [hist EXCEPT !.iters = 0]
    /\ pc' = "p1_iter"
    /\ UNCHANGED <<inputVars, adj, partitions, partitions_diff, perm, pos,
                   enumerate_comb_faults, enumerate_faulty_partitions, unknowns,
                   loaderVars>>

\* an iteration whose check() does not return STATE_SAT: break, then the
\* end of the body of the three loops
P1NotSat(result) ==
    /\ pc = "p1_iter"
    /\ solver_iter < MAX_ITER
    /\ perm' = P1IterPerm(circuit, adj, CONF, partitions, partitions_diff, perm,
                          enumerate_comb_faults)
    /\ res' = result
    /\ hist' = [hist EXCEPT !.proc = 1, !.read = FALSE, !.w = NoWitness,
                            !.iters = @ + 1, !.exit = "nonsat", !.exit_proc = 1,
                            !.exit_iters = hist.iters + 1, !.queries1 = @ + 1,
                            !.incomplete = @ \/ result = "UNKNOWN"]
    /\ pos' = pos + 1
    /\ pc' = "p1_triple"
    /\ UNCHANGED <<inputVars, adj, partitions, partitions_diff, answers, solver_iter,
                   enumerate_comb_faults, enumerate_faulty_partitions, loaderVars>>

P1Unsat ==
    /\ answers = {}
    /\ P1NotSat("UNSAT")
    /\ UNCHANGED unknowns

P1Unknown ==
    /\ unknowns < MaxUnknown
    /\ unknowns' = unknowns + 1
    /\ P1NotSat("UNKNOWN")

\* an iteration whose check() returns STATE_SAT, merge strategy
P1SatMerge ==
    /\ pc = "p1_iter"
    /\ solver_iter < MAX_ITER
    /\ ~CONF.enumerate_exploitable
    /\ \E w \in answers :
         LET t == Triples1(CONF)[pos]
             clauses == P1IterPerm(circuit, adj, CONF, partitions, partitions_diff, perm,
                                   enumerate_comb_faults)
         IN /\ perm' = clauses
            /\ res' = "SAT"
            /\ hist' = [hist EXCEPT !.proc = 1, !.read = TRUE, !.w = w,
                                    !.iters = @ + 1, !.queries1 = @ + 1,
                                    !.sat1 = TRUE, !.merges = @ + 1]
            /\ IF ~ndebug /\ ~P1WitnessAsserts(w, t)
               THEN /\ pc' = "abort"
                    /\ UNCHANGED <<partitions, partitions_diff, answers, solver_iter>>
               ELSE \E order \in Orders(w.next) :
                      LET m == MergePartitions(partitions, partitions_diff, w.next,
                                               order, t.k_faults)
                      IN /\ partitions' = m.partitions
                         /\ partitions_diff' = m.partitions_diff
                         /\ solver_iter' = solver_iter + 1
                         /\ answers' = NextQuery1(m.partitions, m.partitions_diff, clauses,
                                                  enumerate_comb_faults, solver_iter + 1)
                         /\ pc' = "p1_iter"
    /\ UNCHANGED <<inputVars, adj, pos, enumerate_comb_faults,
                   enumerate_faulty_partitions, unknowns, loaderVars>>

\* an iteration whose check() returns STATE_SAT, enumerate_exploitable
P1SatEnumerate ==
    /\ pc = "p1_iter"
    /\ solver_iter < MAX_ITER
    /\ CONF.enumerate_exploitable
    /\ \E w \in answers :
         LET t == Triples1(CONF)[pos]
             clauses == P1IterPerm(circuit, adj, CONF, partitions, partitions_diff, perm,
                                   enumerate_comb_faults)
             enumerated == enumerate_comb_faults \cup UNION {w.comb[c] : c \in DOMAIN w.comb}
         IN /\ perm' = clauses
            /\ res' = "SAT"
            /\ hist' = [hist EXCEPT !.proc = 1, !.read = TRUE, !.w = w,
                                    !.prev_comb = enumerate_comb_faults,
                                    !.iters = @ + 1, !.queries1 = @ + 1, !.sat1 = TRUE]
            /\ enumerate_comb_faults' = enumerated
            /\ IF ~ndebug /\ ~P1WitnessAsserts(w, t)
               THEN /\ pc' = "abort"
                    /\ UNCHANGED <<answers, solver_iter>>
               ELSE /\ solver_iter' = solver_iter + 1
                    /\ answers' = IF enumerated = enumerate_comb_faults
                                     /\ clauses = perm /\ solver_iter + 1 < MAX_ITER
                                  THEN answers
                                  ELSE NextQuery1(partitions, partitions_diff, clauses,
                                                  enumerated, solver_iter + 1)
                    /\ pc' = "p1_iter"
    /\ UNCHANGED <<inputVars, adj, partitions, partitions_diff, pos,
                   enumerate_faulty_partitions, unknowns, loaderVars>>

\* the iteration loop ends on its condition solver_iter < MAX_ITER
P1Exhausted ==
    /\ pc = "p1_iter"
    /\ solver_iter >= MAX_ITER
    /\ hist' = [hist EXCEPT !.exit = "cap", !.exit_proc = 1,
                            !.exit_iters = hist.iters, !.incomplete = TRUE]
    /\ pos' = pos + 1
    /\ pc' = "p1_triple"
    /\ UNCHANGED <<inputVars, adj, partitions, partitions_diff, perm, answers,
                   solver_iter, res, enumerate_comb_faults,
                   enumerate_faulty_partitions, unknowns, loaderVars>>

\* the three loops are over: delete the solver
P1End ==
    /\ pc = "p1_triple"
    /\ pos > Len(Triples1(CONF))
    /\ hist' = [hist EXCEPT !.p1_done = TRUE]
    /\ pc' = IF CONF.procedure # "PROC_1" THEN "proc2" ELSE "done"
    /\ UNCHANGED <<inputVars, adj, partitions, partitions_diff, perm, answers,
                   solver_iter, pos, res, enumerate_comb_faults,
                   enumerate_faulty_partitions, unknowns, loaderVars>>

\* Procedure 2 up to its loops: a new solver, the unrolled traces, the
\* difference vector of cycle 0, the optimisations
P2Begin ==
    /\ pc = "proc2"
    /\ partitions_diff' = <<BuildPartitionsDiff(partitions)>>
    /\ perm' = P2Optimizations(circuit, adj, CONF, partitions, BuildPartitionsDiff(partitions))
    /\ enumerate_comb_faults' = {}
    /\ enumerate_faulty_partitions' = {}
    /\ pos' = 1
    /\ pc' = "p2_pair"
    /\ UNCHANGED <<inputVars, adj, partitions, answers, solver_iter, res, unknowns,
                   hist, loaderVars>>

\* the query the next iteration of Procedure 2 will ask, if there is one
NextQuery2(clauses, enumerated, enumerated_parts, iter) ==
    IF iter < MAX_ITER
    THEN Query2(circuit, adj, CONF, partitions_diff[1], clauses, enumerated,
                enumerated_parts, Pairs2(CONF)[pos])
    ELSE {}

\* the head of the body of the two loops: res = STATE_SAT, the at_most and
\* or variables; the iteration loop has no initialiser
P2EnterPair ==
    /\ pc = "p2_pair"
    /\ pos <= Len(Pairs2(CONF))
    /\ res' = "SAT"
    /\ answers' = NextQuery2(perm, enumerate_comb_faults, enumerate_faulty_partitions,
                             solver_iter)
    /\ hist' = [hist EXCEPT !.iters = 0]
    /\ pc' = "p2_iter"
    /\ UNCHANGED <<inputVars, adj, partitions, partitions_diff, perm, solver_iter, pos,
                   enumerate_comb_faults, enumerate_faulty_partitions, unknowns,
                   loaderVars>>

\* an iteration whose check() returns STATE_UNSAT: break
P2Unsat ==
    /\ pc = "p2_iter"
    /\ solver_iter < MAX_ITER
    /\ answers = {}
    /\ perm' = P2IterPerm(partitions_diff[1], perm, enumerate_comb_faults,
                          enumerate_faulty_partitions)
    /\ res' = "UNSAT"
    /\ hist' = [hist EXCEPT !.proc = 2, !.read = FALSE, !.w = NoWitness,
                            !.iters = @ + 1, !.exit = "nonsat", !.exit_proc = 2,
                            !.exit_iters = hist.iters + 1, !.queries2 = @ + 1]
    /\ pos' = pos + 1
    /\ pc' = "p2_pair"
    /\ UNCHANGED <<inputVars, adj, partitions, partitions_diff, answers, solver_iter,
                   enumerate_comb_faults, enumerate_faulty_partitions, unknowns,
                   loaderVars>>

\* the rest of an iteration after a check() that did not return
\* STATE_UNSAT: the values w are read and recorded, the assertions
\* evaluated, solver_iter incremented
P2Record(result, w) ==
    LET t == Pairs2(CONF)[pos]
        clauses == P2IterPerm(partitions_diff[1], perm, enumerate_comb_faults,
                              enumerate_faulty_partitions)
        asserted == \A c \in DOMAIN w.comb : Cardinality(w.comb[c]) <= t.k_f_comb
    IN /\ perm' = clauses
       /\ res' = result
       /\ hist' = [hist EXCEPT !.proc = 2, !.read = TRUE, !.w = w,
                               !.prev_comb = enumerate_comb_faults,
                               !.prev_parts = enumerate_faulty_partitions,
                               !.iters = @ + 1, !.queries2 = @ + 1,
                               !.sat2 = @ \/ result = "SAT"]
       /\ enumerate_comb_faults' = enumerate_comb_faults \cup
              UNION {w.comb[c] : c \in DOMAIN w.comb}
       /\ enumerate_faulty_partitions' =
              IF ~ndebug /\ ~asserted THEN enumerate_faulty_partitions
              ELSE enumerate_faulty_partitions \cup w.init
       /\ IF ~ndebug /\ ~P2WitnessAsserts(w, t)
          THEN /\ pc' = "abort"
               /\ UNCHANGED <<answers, solver_iter>>
          ELSE /\ solver_iter' = solver_iter + 1
               /\ answers' = NextQuery2(clauses, enumerate_comb_faults',
                                        enumerate_faulty_partitions', solver_iter + 1)
               /\ pc' = "p2_iter"
       /\ UNCHANGED <<inputVars, adj, partitions, partitions_diff, pos, loaderVars>>

\* an iteration whose check() returns STATE_SAT
P2Sat ==
    /\ pc = "p2_iter"
    /\ solver_iter < MAX_ITER
    /\ \E w \in answers : P2Record("SAT", w)
    /\ UNCHANGED unknowns

\* an iteration whose check() returns STATE_UNKNOWN: the test is
\* res == STATE_UNSAT, so the iteration goes on as after STATE_SAT
P2Unknown ==
    /\ pc = "p2_iter"
    /\ solver_iter < MAX_ITER
    /\ unknowns < MaxUnknown
    /\ unknowns' = unknowns + 1
    /\ \E w \in ValuesWithoutModel(circuit, adj, CONF, partitions_diff[1]) :
          P2Record("UNKNOWN", w)

\* the iteration loop ends on its condition solver_iter < MAX_ITER
P2Exhausted ==
    /\ pc = "p2_iter"
    /\ solver_iter >= MAX_ITER
    /\ hist' = [hist EXCEPT !.exit = "cap", !.exit_proc = 2,
                            !.exit_iters = hist.iters]
    /\ pos' = pos + 1
    /\ pc' = "p2_pair"
    /\ UNCHANGED <<inputVars, adj, partitions, partitions_diff, perm, answers,
                   solver_iter, res, enumerate_comb_faults,
                   enumerate_faulty_partitions, unknowns, loaderVars>>

\* the two loops are over: delete the solver, return
P2End ==
    /\ pc = "p2_pair"
    /\ pos > Len(Pairs2(CONF))
    /\ pc' = "done"
    /\ UNCHANGED <<inputVars, adj, partitions, partitions_diff, perm, answers,
                   solver_iter, pos, res, enumerate_comb_faults,
                   enumerate_faulty_partitions, unknowns, hist, loaderVars>>

\* a second run of the program on the same circuit and configuration, with
\* initial_partition_path naming the last partitioning file Procedure 1
\* of the first run wrote
SecondRun ==
    /\ pc = "done"
    /\ ~rerun
    /\ hist.p1_done
    /\ Len(Triples1(CONF)) > 0
    /\ rerun' = TRUE
    /\ CONF' = [CONF EXCEPT !.initial_partition = dump_partitioning(partitions)]
    /\ adj' = <<>>
    /\ partitions' = <<>>
    /\ partitions_diff' = <<>>
    /\ perm' = NoPerm
    /\ answers' = {}
    /\ solver_iter' = 0
    /\ pos' = 0
    /\ res' = "SAT"
    /\ enumerate_comb_faults' = {}
    /\ enumerate_faulty_partitions' = {}
    /\ unknowns' = 0
    /\ hist' = [NoHist EXCEPT !.first_complete = ~hist.incomplete]
    /\ pc' = "start"
    /\ UNCHANGED <<circuit, ndebug, loaderVars>>

\* the runs on the circuits CircA, CircB and CircC, where no loop comes
\* near MAX_ITER iterations
Next ==
    \/ Setup
    \/ P1Begin
    \/ P1EnterTriple
    \/ P1Unsat
    \/ P1Unknown
    \/ P1SatMerge
    \/ P1SatEnumerate
    \/ P1End
    \/ P2Begin
    \/ P2EnterPair
    \/ P2Unsat
    \/ P2Sat
    \/ P2Unknown
    \/ P2End
    \/ SecondRun

Spec == Init /\ [][Next]_vars

\* the runs on CircD in enumeration mode, where no partition is merged
NextIter ==
    \/ Setup
    \/ P1Begin
    \/ P1EnterTriple
    \/ P1Unsat
    \/ P1Unknown
    \/ P1SatEnumerate
    \/ P1Exhausted
    \/ P1End
    \/ P2Begin
    \/ P2EnterPair
    \/ P2Unsat
    \/ P2Sat
    \/ P2Unknown
    \/ P2Exhausted
    \/ P2End

SpecIter == InitIter /\ [][NextIter]_vars

(***************************************************************************)
(* Circuit::Circuit(json_file_path, top_module_name) (Circuit.cpp)         *)
(*                                                                         *)
(* netlist = [ins, outs, cells]: the signals of the input and output       *)
(* ports and the items of "cells" in the order the loop visits them, each  *)
(* a record of its type string and connections.  A cell of m_cells is      *)
(* the pair of ld.m_cells[i], its type and ports, and ld.names[i], its     *)
(* name: the position of its item in the netlist.                          *)
(***************************************************************************)
\* bound on the number of cells of a netlist
MaxCells == 3

\* the cell items netlists are made of: two registers, the producers of 8
\* and 9, a formal cell, a cell of unknown type, a cell driving an input
CellPool ==
    {DffPorts("dff_p", 4, 5, 6),
     DffPorts("dff_p", 4, 8, 7),
     UnaryPorts("not", 6, 8),
     BinaryPorts("xor", 6, 7, 8),
     UnaryPorts("buf", 8, 9),
     UnaryPorts("buf", 9, 8),
     UnaryPorts("$assert", 6, S_0),
     UnaryPorts("$lut", 6, 9),
     UnaryPorts("buf", 6, 5)}

RECURSIVE SeqsUpTo(_, _)
SeqsUpTo(S, n) ==
    IF n = 0 THEN {<<>>}
    ELSE LET shorter == SeqsUpTo(S, n - 1)
         IN shorter \cup {Append(sq, x) : sq \in {z \in shorter : Len(z) = n - 1}, x \in S}

Netlists ==
    {[ins |-> {4, 5}, outs |-> {8}, cells |-> cs] : cs \in SeqsUpTo(CellPool, MaxCells)}

NoLoad ==
    [m_signals |-> ConstSigs, m_in_ports |-> {}, m_out_ports |-> {}, m_reg_outs |-> {},
     m_cells |-> <<>>, names |-> <<>>, missing |-> {}, m_sig_clock |-> S_0,
     visited_sig |-> {}, visited_cell |-> {}, cell_order |-> <<>>, next |-> 1,
     error |-> ""]

\* a comparison of the clock of a register only
CycleInputsClock(type, cd) ==
    IF is_register(type) THEN {cd.c} ELSE CombInputs([cd EXCEPT !.type = type])

\* the inputs of a cell item compared with its output: A, B, S of a
\* combinational cell; C, R, E of a register
CycleInputs(type, cd) ==
    IF is_register(type)
    THEN {cd.c} \cup (IF dff_has_reset(type) THEN {cd.r} ELSE {})
                \cup (IF dff_has_enable(type) THEN {cd.e} ELSE {})
    ELSE CombInputs([cd EXCEPT !.type = type])

\* the inputs of a cell item looked up in m_signals
KnownInputs(type, cd) ==
    CombInputs([cd EXCEPT !.type = type]) \cup RegInputs([cd EXCEPT !.type = type])

\* the Cell constructed from a cell item
NewCell(type, cd) ==
    IF is_unary(type) THEN UnaryPorts(type, cd.a, cd.y)
    ELSE IF is_binary(type) THEN BinaryPorts(type, cd.a, cd.b, cd.y)
    ELSE IF is_multiplexer(type) THEN MultiplexerPorts(type, cd.a, cd.b, cd.s, cd.y)
    ELSE IF ~dff_has_enable(type) /\ ~dff_has_reset(type) THEN DffPorts(type, cd.c, cd.d, cd.y)
    ELSE IF ~dff_has_enable(type) THEN DffrPorts(type, cd.c, cd.d, cd.y, cd.r)
    ELSE IF ~dff_has_reset(type) THEN DffePorts(type, cd.c, cd.d, cd.y, cd.e)
    ELSE DfferPorts(type, cd.c, cd.d, cd.y, cd.r, cd.e)

\* a clock loop that looks at the first register only
ClockLoopFirst(cells, i, clock, found_pos_edge, found_neg_edge) ==
    LET regs == {j \in i..Len(cells) : is_register(cells[j].type)}
        first == CHOOSE j \in regs : \A l \in regs : j <= l
    IN IF regs = {} THEN [clock |-> clock, error |-> ""]
       ELSE IF cells[first].c \in ConstSigs
       THEN [clock |-> clock, error |-> "ILLEGAL_CLOCK_SIGNAL"]
       ELSE [clock |-> cells[first].c, error |-> ""]

\* the clock loop over m_cells from cell i: the clock found and the error
\* thrown, "" if none
RECURSIVE ClockLoop(_, _, _, _, _)
ClockLoop(cells, i, clock, found_pos_edge, found_neg_edge) ==
    IF i > Len(cells)
    THEN [clock |-> clock,
          error |-> IF found_neg_edge /\ found_pos_edge THEN "ILLEGAL_CLOCK_EDGE" ELSE ""]
    ELSE IF ~is_register(cells[i].type)
    THEN ClockLoop(cells, i + 1, clock, found_pos_edge, found_neg_edge)
    ELSE LET trigger == dff_clock_trigger(cells[i].type)
             pos_edge == found_pos_edge \/ trigger
             neg_edge == found_neg_edge \/ ~trigger
         IN IF clock = S_0
            THEN IF cells[i].c \in ConstSigs
                 THEN [clock |-> clock, error |-> "ILLEGAL_CLOCK_SIGNAL"]
                 ELSE ClockLoop(cells, i + 1, cells[i].c, pos_edge, neg_edge)
            ELSE IF cells[i].c # clock
                 THEN [clock |-> clock, error |-> "ILLEGAL_MULTIPLE_CLOCKS"]
                 ELSE ClockLoop(cells, i + 1, clock, pos_edge, neg_edge)

\* a scan that emits a cell whatever its inputs
sig_visited_any(visited, cell) == TRUE

\* the test of the scan: the inputs of a combinational cell are all visited
sig_visited(visited, cell) == CombInputs(cell) \subseteq visited

\* one pass of the for loop inside the while loop of the linearization,
\* from cell i
RECURSIVE ScanPass(_, _, _)
ScanPass(cells, i, st) ==
    IF i > Len(cells) THEN st
    ELSE IF i \in st.visited_cell \/ ~sig_visited(st.visited_sig, cells[i])
    THEN ScanPass(cells, i + 1, st)
    ELSE ScanPass(cells, i + 1,
                  [visited_sig |-> st.visited_sig \cup {cells[i].y},
                   visited_cell |-> st.visited_cell \cup {i},
                   cell_order |-> Append(st.cell_order, i)])

\* the variables the loader leaves alone
driverVars ==
    <<circuit, CONF, adj, partitions, partitions_diff, perm, answers, solver_iter, pos,
      res, enumerate_comb_faults, enumerate_faulty_partitions, unknowns, rerun, hist,
      sat>>

InitLoadWith(netlists) ==
    /\ netlist \in netlists
    /\ ndebug \in BOOLEAN
    /\ ld = NoLoad
    /\ pc = "ld_ports"
    /\ circuit = <<>>
    /\ CONF = <<>>
    /\ adj = <<>>
    /\ partitions = <<>>
    /\ partitions_diff = <<>>
    /\ perm = NoPerm
    /\ answers = {}
    /\ solver_iter = 0
    /\ pos = 0
    /\ res = "SAT"
    /\ enumerate_comb_faults = {}
    /\ enumerate_faulty_partitions = {}
    /\ unknowns = 0
    /\ rerun = FALSE
    /\ hist = NoHist
    /\ sat = <<>>

InitLoad == InitLoadWith(Netlists)

\* the constants and the loop over "ports"
LoadPorts ==
    /\ pc = "ld_ports"
    /\ ld' = [ld EXCEPT !.m_signals = ConstSigs \cup netlist.ins,
                        !.m_in_ports = netlist.ins,
                        !.m_out_ports = netlist.outs]
    /\ pc' = "ld_cells"
    /\ UNCHANGED <<netlist, ndebug, driverVars>>

\* one iteration of the loop over "cells"
LoadCell ==
    /\ pc = "ld_cells"
    /\ ld.next <= Len(netlist.cells)
    /\ LET cd == netlist.cells[ld.next]
           type == cell_type_from_string(cd.type)
           first == IF is_register(type) THEN {cd.c} ELSE CycleInputs(type, cd)
           register(st) ==
               [st EXCEPT !.missing = (@ \cup (KnownInputs(type, cd) \ st.m_signals)) \ {cd.y},
                          !.m_signals = @ \cup {cd.y},
                          !.m_reg_outs = IF is_register(type) THEN @ \cup {cd.y} ELSE @,
                          !.m_cells = Append(@, NewCell(type, cd)),
                          !.names = Append(@, st.next),
                          !.next = @ + 1]
       IN IF cd.type = "$assert"
          THEN ld' = [ld EXCEPT !.next = @ + 1] /\ pc' = pc
          ELSE IF type = "CELL_NONE"
          THEN ld' = [ld EXCEPT !.error = "ILLEGAL_CELL_TYPE"] /\ pc' = "failed"
          ELSE IF cd.y \in first
          THEN ld' = [ld EXCEPT !.error = "ILLEGAL_CELL_CYCLE"] /\ pc' = "failed"
          ELSE IF cd.y \in ld.m_signals /\ ~ndebug
          THEN ld' = ld /\ pc' = "abort"
          ELSE IF cd.y \in CycleInputs(type, cd)
          THEN ld' = [ld EXCEPT !.error = "ILLEGAL_CELL_CYCLE"] /\ pc' = "failed"
          ELSE ld' = register(ld) /\ pc' = pc
    /\ UNCHANGED <<netlist, ndebug, driverVars>>

\* after the loop over "cells": all read signals and all outputs are defined
LoadCheckMissing ==
    /\ pc = "ld_cells"
    /\ ld.next > Len(netlist.cells)
    /\ IF ld.missing # {} \/ ~(ld.m_out_ports \subseteq ld.m_signals)
       THEN ld' = [ld EXCEPT !.error = "ILLEGAL_MISSING_SIGNALS"] /\ pc' = "failed"
       ELSE ld' = ld /\ pc' = "ld_clock"
    /\ UNCHANGED <<netlist, ndebug, driverVars>>

\* the clock checks, then the seeds of the linearization: inputs,
\* constants and the registers in the order of m_cells
LoadClock ==
    /\ pc = "ld_clock"
    /\ LET cl == ClockLoop(ld.m_cells, 1, ld.m_sig_clock, FALSE, FALSE)
           regs == {i \in 1..Len(ld.m_cells) : is_register(ld.m_cells[i].type)}
       IN IF cl.error # ""
          THEN ld' = [ld EXCEPT !.m_sig_clock = cl.clock, !.error = cl.error]
               /\ pc' = "failed"
          ELSE /\ ld' = [ld EXCEPT !.m_sig_clock = cl.clock,
                                   !.visited_sig = ld.m_in_ports \cup ConstSigs
                                        \cup {ld.m_cells[i].y : i \in regs},
                                   !.visited_cell = regs,
                                   !.cell_order = SetToSeq(regs)]
               /\ pc' = "ld_scan"
    /\ UNCHANGED <<netlist, ndebug, driverVars>>

\* one turn of the while loop: a pass over m_cells
LoadScan ==
    /\ pc = "ld_scan"
    /\ Len(ld.cell_order) # Len(ld.m_cells)
    /\ LET st == ScanPass(ld.m_cells, 1,
                          [visited_sig |-> ld.visited_sig, visited_cell |-> ld.visited_cell,
                           cell_order |-> ld.cell_order])
       IN ld' = [ld EXCEPT !.visited_sig = st.visited_sig,
                           !.visited_cell = st.visited_cell,
                           !.cell_order = st.cell_order]
    /\ pc' = pc
    /\ UNCHANGED <<netlist, ndebug, driverVars>>

\* the while loop is over: m_cells = cell_order
LoadDone ==
    /\ pc = "ld_scan"
    /\ Len(ld.cell_order) = Len(ld.m_cells)
    /\ ld' = [ld EXCEPT !.m_cells = [i \in 1..Len(ld.cell_order) |-> ld.m_cells[ld.cell_order[i]]],
                        !.names = [i \in 1..Len(ld.cell_order) |-> ld.names[ld.cell_order[i]]]]
    /\ pc' = "loaded"
    /\ UNCHANGED <<netlist, ndebug, driverVars>>

NextLoad ==
    \/ LoadPorts
    \/ LoadCell
    \/ LoadCheckMissing
    \/ LoadClock
    \/ LoadScan
    \/ LoadDone

SpecLoad == InitLoad /\ [][NextLoad]_vars

\* netlists of cells that read their own output: a register through D, C,
\* R or E, a combinational cell through A, B or S
CyclePool ==
    {DffPorts("dff_p", 4, 5, 6),
     DffPorts("dff_p", 4, 7, 7),
     DffPorts("dff_p", 7, 5, 7),
     DffrPorts("dffr_p", 4, 5, 7, 7),
     DffePorts("dffe_p", 4, 5, 7, 7),
     UnaryPorts("not", 6, 8),
     UnaryPorts("buf", 8, 8),
     BinaryPorts("xor", 6, 8, 8),
     MultiplexerPorts("mux", 6, 6, 8, 8)}

CycleNetlists ==
    {[ins |-> {4, 5}, outs |-> {8}, cells |-> cs] : cs \in SeqsUpTo(CyclePool, MaxCells)}

InitCycle == InitLoadWith(CycleNetlists)

SpecCycle == InitCycle /\ [][NextLoad]_vars

\* netlists of registers on the clock 4, on the input 5 as a clock, on a
\* constant clock, and of both edges
ClockPool ==
    {DffPorts("dff_p", 4, 5, 6),
     DffPorts("dff_p", 4, 5, 7),
     DffPorts("dff_n", 4, 5, 7),
     DffPorts("dff_p", 5, 4, 7),
     DffPorts("dff_n", 5, 4, 7),
     DffPorts("dff_p", S_1, 5, 7),
     DffPorts("dff_p", S_1, 5, 6),
     UnaryPorts("not", 6, 8),
     UnaryPorts("not", 7, 8)}

ClockNetlists ==
    {[ins |-> {4, 5}, outs |-> {8}, cells |-> cs] : cs \in SeqsUpTo(ClockPool, MaxCells)}

InitClock == InitLoadWith(ClockNetlists)

SpecClock == InitClock /\ [][NextLoad]_vars

(***************************************************************************)
(* The loader followed by build_adjacent_lists, as                         *)
(* check_k_fault_resistant_partitioning calls them                         *)
(***************************************************************************)
\* netlists with a fan-out, a chain of combinational cells, a register fed
\* by a combinational cell, and two producers of signal 8
AdjPool ==
    {DffPorts("dff_p", 4, 5, 6),
     DffPorts("dff_p", 4, 8, 6),
     UnaryPorts("not", 5, 8),
     UnaryPorts("not", 6, 8),
     UnaryPorts("buf", 8, 9),
     BinaryPorts("and", 5, 6, 9),
     UnaryPorts("buf", 9, 7)}

AdjNetlists ==
    {[ins |-> {4, 5}, outs |-> o, cells |-> cs] :
        o \in {{9}, {8, 9}, {5, 9}, {6, 7}}, cs \in SeqsUpTo(AdjPool, MaxCells)}

InitAdj == InitLoadWith(AdjNetlists)

\* the Circuit object after a successful load
LoadedCircuit ==
    [ins |-> ld.m_in_ports, outs |-> ld.m_out_ports, regs |-> ld.m_reg_outs,
     cells |-> ld.m_cells]

\* circuit->build_adjacent_lists() on the loaded circuit.  The assertions
\* that a signal has no set yet stop a build with assertions; without
\* them, reading through a null pointer either ends the process or finds
\* an empty set.
BuildAdjacentLists ==
    /\ pc = "loaded"
    /\ circuit' = LoadedCircuit
    /\ LET lists == build_adjacent_lists(LoadedCircuit)
           order == SigOrder(LoadedCircuit)
           twice == \E i, j \in 1..Len(order) : i # j /\ order[i] = order[j]
       IN IF twice /\ ~ndebug
          THEN adj' = adj /\ pc' = "abort"
          ELSE IF lists.ub
          THEN \/ adj' = adj /\ pc' = "crash"
               \/ adj' = lists /\ pc' = "adjacent"
          ELSE adj' = lists /\ pc' = "adjacent"
    /\ UNCHANGED <<netlist, ld, ndebug, CONF, partitions, partitions_diff, perm, answers,
                   solver_iter, pos, res, enumerate_comb_faults,
                   enumerate_faulty_partitions, unknowns, rerun, hist, sat>>

NextAdj ==
    \/ NextLoad
    \/ BuildAdjacentLists

SpecAdj == InitAdj /\ [][NextAdj]_vars

(***************************************************************************)
(* fault_spec_t on a solver of its own.  sat = [nvars, clauses, faults]:   *)
(* the variables are 1..nvars, a clause is a set of literals <<variable,   *)
(* sign>>, and faults holds <<normal, f0, new_value>> of every call of     *)
(* induce_fault.                                                           *)
(***************************************************************************)
\* bound on the number of variables of the solver
MaxVars == 8

\* the clauses with the two bit-flip clauses left out
induce_fault_no_flip(f0, normal, new_value) ==
    {{<<normal, TRUE>>, <<f0, TRUE>>, <<new_value, FALSE>>},
     {<<normal, FALSE>>, <<f0, TRUE>>, <<new_value, TRUE>>}}

\* the four clauses fault_spec_t::induce_fault adds
induce_fault_clauses(f0, normal, new_value) ==
    {{<<normal, TRUE>>, <<f0, TRUE>>, <<new_value, FALSE>>},
     {<<normal, FALSE>>, <<f0, TRUE>>, <<new_value, TRUE>>},
     {<<normal, TRUE>>, <<f0, FALSE>>, <<new_value, TRUE>>},
     {<<normal, FALSE>>, <<f0, FALSE>>, <<new_value, FALSE>>}}

\* the models of the solver: the assignments that satisfy every clause
Models(solver) ==
    {m \in [1..solver.nvars -> BOOLEAN] :
        \A cl \in solver.clauses : \E lit \in cl : m[lit[1]] = lit[2]}

InitFault ==
    /\ sat = [nvars |-> 1, clauses |-> {}, faults |-> {}]
    /\ pc = "solver"
    /\ ndebug = FALSE
    /\ netlist = <<>>
    /\ ld = <<>>
    /\ circuit = <<>>
    /\ CONF = <<>>
    /\ adj = <<>>
    /\ partitions = <<>>
    /\ partitions_diff = <<>>
    /\ perm = NoPerm
    /\ answers = {}
    /\ solver_iter = 0
    /\ pos = 0
    /\ res = "SAT"
    /\ enumerate_comb_faults = {}
    /\ enumerate_faulty_partitions = {}
    /\ unknowns = 0
    /\ rerun = FALSE
    /\ hist = NoHist

\* the variables fault_spec_t leaves alone
notSat ==
    <<circuit, CONF, ndebug, adj, partitions, partitions_diff, perm, answers, solver_iter,
      pos, res, enumerate_comb_faults, enumerate_faulty_partitions, unknowns, rerun, hist,
      pc, netlist, ld>>

\* solver->new_var() for a signal of the golden state
NewVar ==
    /\ pc = "solver"
    /\ sat.nvars < MaxVars
    /\ sat' = [sat EXCEPT !.nvars = @ + 1]
    /\ UNCHANGED notSat

\* fault_spec_t f; f.induce_fault(normal): the constructor makes the
\* selector f0, induce_fault makes new_value and adds the clauses
InduceFault ==
    /\ pc = "solver"
    /\ sat.nvars + 2 <= MaxVars
    /\ \E normal \in 1..sat.nvars :
          LET f0 == sat.nvars + 1
              new_value == sat.nvars + 2
          IN sat' = [nvars |-> sat.nvars + 2,
                     clauses |-> sat.clauses \cup induce_fault_clauses(f0, normal, new_value),
                     faults |-> sat.faults \cup {<<normal, f0, new_value>>}]
    /\ UNCHANGED notSat

NextFault ==
    \/ NewVar
    \/ InduceFault

SpecFault == InitFault /\ [][NextFault]_vars

(***************************************************************************)
(* The labels of the signals (Circuit.cpp, VerilogId.h)                    *)
(***************************************************************************)
MaxNames == 2

\* the driver at rest, for the specifications that never start it
IdleDriver ==
    /\ circuit = <<>>
    /\ CONF = <<>>
    /\ adj = <<>>
    /\ partitions = <<>>
    /\ partitions_diff = <<>>
    /\ perm = NoPerm
    /\ answers = {}
    /\ solver_iter = 0
    /\ pos = 0
    /\ res = "SAT"
    /\ enumerate_comb_faults = {}
    /\ enumerate_faulty_partitions = {}
    /\ unknowns = 0
    /\ rerun = FALSE
    /\ hist = NoHist

\* std::string::npos
npos == -1

\* a name is the sequence of its characters
NamePool == {<<"x">>, <<"_", "a">>, <<"y", "_">>, <<"m", ".", "x">>, <<"y", "z">>}

\* the character codes of the characters of NamePool
CharCode == [c \in {".", "_", "a", "m", "x", "y", "z"} |->
               CASE c = "." -> 46 [] c = "_" -> 95 [] c = "a" -> 97 [] c = "m" -> 109
                 [] c = "x" -> 120 [] c = "y" -> 121 [] c = "z" -> 122]

\* std::string::find(ch, curr): the first index from curr on, counted from 0
find(name, ch, curr) ==
    LET hits == {i \in curr..(Len(name) - 1) : name[i + 1] = ch}
    IN IF hits = {} THEN npos ELSE CHOOSE i \in hits : \A j \in hits : i <= j

\* the do-while of the constructor of VerilogId: one more than the dots
RECURSIVE DepthFrom(_, _)
DepthFrom(name, curr) ==
    LET found == find(name, ".", curr)
    IN IF found = npos THEN 1 ELSE 1 + DepthFrom(name, found + 1)

VerilogId(name, position) == [name |-> name, pos |-> position, depth |-> DepthFrom(name, 0)]

\* operator< of VerilogId
VerilogIdLess(a, b) ==
    LET apos == find(a.name, "_", 0)
        bpos == find(b.name, "_", 0)
    IN IF bpos = 0 /\ apos # 0 THEN TRUE
       ELSE IF bpos # 0 /\ apos = 0 THEN FALSE
       ELSE IF a.depth < b.depth THEN TRUE
       ELSE IF a.depth > b.depth THEN FALSE
       ELSE Len(a.name) < Len(b.name)

\* the order of the keys of a JSON object: std::map of std::string
RECURSIVE KeyLess(_, _)
KeyLess(a, b) ==
    IF b = <<>> THEN FALSE
    ELSE IF a = <<>> THEN TRUE
    ELSE IF CharCode[a[1]] # CharCode[b[1]] THEN CharCode[a[1]] < CharCode[b[1]]
    ELSE KeyLess(Tail(a), Tail(b))

\* items() of a JSON object: the keys in their order
RECURSIVE items(_)
items(obj) ==
    IF DOMAIN obj = {} THEN <<>>
    ELSE LET key == CHOOSE k \in DOMAIN obj : \A o \in DOMAIN obj \ {k} : KeyLess(k, o)
         IN <<key>> \o items([o \in DOMAIN obj \ {key} |-> obj[o]])

\* emplace and emplace_hint of std::unordered_map: nothing is stored under
\* a key the map holds already
emplace(map, key, value) ==
    IF key \in DOMAIN map THEN map ELSE [k \in DOMAIN map \cup {key} |-> IF k = key THEN value ELSE map[k]]

RECURSIVE add_bit_names(_, _, _, _)
add_bit_names(name, typed_signals, position, m_bit_name) ==
    IF position >= Len(typed_signals) THEN m_bit_name
    ELSE LET sig == typed_signals[position + 1]
             vid == VerilogId(name, position)
         IN add_bit_names(name, typed_signals, position + 1,
                IF sig \notin DOMAIN m_bit_name THEN emplace(m_bit_name, sig, vid)
                ELSE IF VerilogIdLess(vid, m_bit_name[sig]) THEN emplace(m_bit_name, sig, vid)
                ELSE m_bit_name)

\* the "bits" of a name: signals of the module and constants
BitsPool == {<<5>>, <<6>>, <<5, 6>>, <<S_0>>}

\* JSON objects of at most n names
NameObjects(n) ==
    UNION {[names -> BitsPool] : names \in {s \in SUBSET NamePool : Cardinality(s) <= n}}

NameNetlists ==
    {[ports |-> p, netnames |-> n] : p \in NameObjects(1), n \in NameObjects(MaxNames)}

NoNames == [m_name_bits |-> <<>>, m_bit_name |-> <<>>, todo |-> <<>>, error |-> ""]

InitNames ==
    /\ netlist \in NameNetlists
    /\ ld = [NoNames EXCEPT !.todo = items(netlist.ports)]
    /\ pc = "nm_ports"
    /\ ndebug \in BOOLEAN
    /\ sat = <<>>
    /\ IdleDriver

\* one turn of the loop over "ports"
NamePort ==
    /\ pc = "nm_ports"
    /\ ld.todo # <<>>
    /\ LET name == Head(ld.todo)
           typed_signals == netlist.ports[name]
       IN IF name \in DOMAIN ld.m_name_bits
          THEN /\ ld' = [ld EXCEPT !.error = "ILLEGAL_NAME_REDECLARATION"]
               /\ pc' = "error"
          ELSE /\ ld' = [ld EXCEPT !.m_name_bits = emplace(@, name, typed_signals),
                                   !.m_bit_name = add_bit_names(name, typed_signals, 0, @),
                                   !.todo = Tail(@)]
               /\ pc' = pc
    /\ UNCHANGED <<netlist, ndebug, driverVars>>

\* the loop over "ports" ends, the one over "netnames" begins
NamePortsDone ==
    /\ pc = "nm_ports"
    /\ ld.todo = <<>>
    /\ ld' = [ld EXCEPT !.todo = items(netlist.netnames)]
    /\ pc' = "nm_nets"
    /\ UNCHANGED <<netlist, ndebug, driverVars>>

\* one turn of the loop over "netnames"
NameNet ==
    /\ pc = "nm_nets"
    /\ ld.todo # <<>>
    /\ LET name == Head(ld.todo)
           typed_signals == netlist.netnames[name]
       IN IF name \in DOMAIN ld.m_name_bits
          THEN IF ld.m_name_bits[name] # typed_signals
               THEN /\ ld' = [ld EXCEPT !.error = "ILLEGAL_NAME_REDECLARATION"]
                    /\ pc' = "error"
               ELSE /\ ld' = [ld EXCEPT !.todo = Tail(@)]
                    /\ pc' = pc
          ELSE /\ ld' = [ld EXCEPT !.m_name_bits = emplace(@, name, typed_signals),
                                   !.m_bit_name = add_bit_names(name, typed_signals, 0, @),
                                   !.todo = Tail(@)]
               /\ pc' = pc
    /\ UNCHANGED <<netlist, ndebug, driverVars>>

\* the labels of the four constants
NameConstants ==
    /\ pc = "nm_nets"
    /\ ld.todo = <<>>
    /\ ld' = [ld EXCEPT !.m_bit_name =
                 emplace(emplace(emplace(emplace(@,
                     S_0, VerilogId(<<"constant 0">>, 0)),
                     S_1, VerilogId(<<"constant 1">>, 0)),
                     S_X, VerilogId(<<"constant X">>, 0)),
                     S_Z, VerilogId(<<"constant Z">>, 0))]
    /\ pc' = "named"
    /\ UNCHANGED <<netlist, ndebug, driverVars>>

NextNames ==
    \/ NamePort
    \/ NamePortsDone
    \/ NameNet
    \/ NameConstants

SpecNames == InitNames /\ [][NextNames]_vars

(***************************************************************************)
(* The subcircuit constructor of Circuit (Circuit.cpp), run on a loaded    *)
(* circuit.  ld holds the members and locals of the constructor: top is    *)
(* the top circuit and visited_cells the positions of the visited cells in *)
(* top.cells.  The names of the nets are left to SpecNames.                *)
(***************************************************************************)
SubPool ==
    {DffPorts("dff_p", 4, 5, 6),
     DffPorts("dff_p", 4, 8, 7),
     UnaryPorts("not", 6, 8),
     BinaryPorts("and", 5, 6, 8),
     UnaryPorts("buf", 8, 9),
     BinaryPorts("xor", 7, 8, 9),
     MultiplexerPorts("mux", 6, S_0, 5, 9)}

SubNetlists ==
    {[ins |-> {4, 5}, outs |-> o, cells |-> cs] :
        o \in {{9}, {8, 9}, {7}}, cs \in SeqsUpTo(SubPool, MaxCells)}

\* the ports of the interface file
SubInterfaces ==
    {[ins |-> i, outs |-> o] : i \in {{}, {4}, {4, 5}, {4, 6}, {4, 8}}, o \in {{9}, {8}, {7}}}

InitSub == InitLoadWith(SubNetlists)

\* the inputs of a combinational cell only
in_ports_comb(cell) == CombInputs(cell)

\* in_ports: the inputs collected from a connected cell
in_ports(cell) == CombInputs(cell) \cup RegInputs(cell)

\* one turn of the while loop: the cells from the last to the first
RECURSIVE ExplorePass(_, _, _)
ExplorePass(top, i, st) ==
    IF i = 0 \/ st.error # "" THEN st
    ELSE LET p_cell == top.cells[i]
             out_sig == p_cell.y
         IN IF i \in st.visited_cells THEN ExplorePass(top, i - 1, st)
            ELSE IF out_sig \notin st.visited_sigs THEN ExplorePass(top, i - 1, st)
            ELSE IF out_sig \in st.m_in_ports THEN ExplorePass(top, i - 1, st)
            ELSE IF \E sig_in \in in_ports(p_cell) : sig_in \in top.ins /\ sig_in \notin st.m_in_ports
            THEN [st EXCEPT !.error = "ILLEGAL_SUBCIRCUIT_MISSING_INPUT"]
            ELSE ExplorePass(top, i - 1,
                    [st EXCEPT !.visited_sigs = @ \cup in_ports(p_cell),
                               !.visited_cells = @ \cup {i},
                               !.m_reg_outs = @ \cup (IF is_register(p_cell.type) THEN {out_sig} ELSE {})])

\* the cells of m_cells at the positions of a set, in their order
RECURSIVE CopyCells(_, _, _)
CopyCells(cells, visited_cells, i) ==
    IF i > Len(cells) THEN <<>>
    ELSE (IF i \in visited_cells THEN <<cells[i]>> ELSE <<>>) \o CopyCells(cells, visited_cells, i + 1)

\* the constants and the loop over the ports of the interface
SubPorts ==
    /\ pc = "loaded"
    /\ \E interface \in SubInterfaces :
          ld' = [top |-> LoadedCircuit,
                 m_signals |-> ConstSigs \cup interface.ins,
                 m_in_ports |-> interface.ins,
                 m_out_ports |-> interface.outs,
                 m_reg_outs |-> {},
                 m_cells |-> <<>>,
                 m_sig_clock |-> S_0,
                 visited_sigs |-> interface.outs,
                 visited_cells |-> {},
                 visited_sigs_size |-> 0,
                 error |-> ""]
    /\ pc' = "sub_explore"
    /\ UNCHANGED <<netlist, ndebug, driverVars>>

\* while (visited_sigs.size() != visited_sigs_size): one turn
SubPass ==
    /\ pc = "sub_explore"
    /\ Cardinality(ld.visited_sigs) # ld.visited_sigs_size
    /\ ld' = ExplorePass(ld.top, Len(ld.top.cells),
                         [ld EXCEPT !.visited_sigs_size = Cardinality(ld.visited_sigs)])
    /\ pc' = IF ld'.error # "" THEN "sub_error" ELSE pc
    /\ UNCHANGED <<netlist, ndebug, driverVars>>

\* after the loop: the check for implicit outputs and the copies
SubCopy ==
    /\ pc = "sub_explore"
    /\ Cardinality(ld.visited_sigs) = ld.visited_sigs_size
    /\ IF \E sig \in ld.visited_sigs \ ConstSigs : sig \in ld.top.outs /\ sig \notin ld.m_out_ports
       THEN /\ ld' = [ld EXCEPT !.error = "ILLEGAL_SUBCIRCUIT_IMPLICIT_TOPMOD_OUTPUT"]
            /\ pc' = "sub_error"
       ELSE /\ ld' = [ld EXCEPT !.m_signals = @ \cup ld.visited_sigs,
                                !.m_cells = CopyCells(ld.top.cells, ld.visited_cells, 1)]
            /\ pc' = "extracted"
    /\ UNCHANGED <<netlist, ndebug, driverVars>>

NextSub ==
    \/ NextLoad
    \/ SubPorts
    \/ SubPass
    \/ SubCopy

SpecSub == InitSub /\ [][NextSub]_vars

(***************************************************************************)
(* The unrolling loops of the two procedures (k-partitions.cpp) with an    *)
(* invariant list.  sat = [cycle, units]: the cycle the loop is at and the *)
(* unit clauses on trace variables added so far, each the trace, the step, *)
(* the signal and the bit the variable is forced to.                       *)
(***************************************************************************)
MaxDelay == 2

\* a register 6 that toggles (D = 7 = NOT 6) and the output 8 = 5 AND 6;
\* clock 4
CircT ==
    [ins |-> {4, 5}, outs |-> {8}, regs |-> {6},
     cells |-> <<DffPorts("dff_p", 4, 7, 6), UnaryPorts("not", 6, 7),
                 BinaryPorts("and", 5, 6, 8)>>]

ScenariosT ==
    {[circ |-> CircT,
      conf |-> [Conf(1, d, TRUE, "SEQ", FALSE, FALSE, proc, {}, al, <<>>)
                   EXCEPT !.invariant_list = inv]] :
        d \in 0..MaxDelay, proc \in {"PROC_1", "PROC_2"}, al \in {{}, {<<8, FALSE>>}},
        inv \in {{}, {<<6, TRUE>>}, {<<5, FALSE>>}, {<<5, TRUE>>, <<6, FALSE>>}}}

\* the last cycle of the unrolling loop of the procedure of the run
HorizonOf(conf) == IF conf.procedure = "PROC_1" THEN Horizon1(conf) ELSE Horizon2(conf)

\* the unit clauses of assert_invariants_at_step
invariant_clauses(invariant_list, step) ==
    {[trace |-> "golden", step |-> step, sig |-> inv[1], bit |-> inv[2]] : inv \in invariant_list}

\* the unit clauses of assert_no_alert_at_step
no_alert_clauses(alert_list, step) ==
    {[trace |-> tr, step |-> step, sig |-> al[1], bit |-> al[2]] :
        tr \in {"golden", "faulty"}, al \in alert_list}

\* the invariants asserted in every turn of the loop
InvariantsEveryCycle(invariant_list, cycle) == invariant_clauses(invariant_list, cycle)

\* the invariants asserted in the turn of a cycle: in the branch of cycle 0
InvariantsOfCycle(invariant_list, cycle) ==
    IF cycle = 0 THEN invariant_clauses(invariant_list, 0) ELSE {}

InitInv ==
    /\ \E sc \in ScenariosT : circuit = sc.circ /\ CONF = sc.conf
    /\ ndebug \in BOOLEAN
    /\ pc = "new_solver"
    /\ sat = <<>>
    /\ netlist = <<>>
    /\ ld = <<>>
    /\ adj = <<>>
    /\ partitions = <<>>
    /\ partitions_diff = <<>>
    /\ perm = NoPerm
    /\ answers = {}
    /\ solver_iter = 0
    /\ pos = 0
    /\ res = "SAT"
    /\ enumerate_comb_faults = {}
    /\ enumerate_faulty_partitions = {}
    /\ unknowns = 0
    /\ rerun = FALSE
    /\ hist = NoHist

\* the variables the unrolling loop leaves alone
notUnroll ==
    <<circuit, CONF, ndebug, adj, partitions, partitions_diff, perm, answers, solver_iter,
      pos, res, enumerate_comb_faults, enumerate_faulty_partitions, unknowns, rerun, hist,
      netlist, ld>>

\* cxxsat::solver = new cxxsat::Solver()
UnrollNewSolver ==
    /\ pc = "new_solver"
    /\ sat' = [cycle |-> 0, units |-> {}]
    /\ pc' = "unroll"
    /\ UNCHANGED notUnroll

\* one turn of the for loop over the cycles
UnrollCycle ==
    /\ pc = "unroll"
    /\ sat.cycle <= HorizonOf(CONF)
    /\ sat' = [cycle |-> sat.cycle + 1,
               units |-> sat.units \cup InvariantsOfCycle(CONF.invariant_list, sat.cycle)
                                   \cup no_alert_clauses(CONF.alert_list, sat.cycle)]
    /\ pc' = pc
    /\ UNCHANGED notUnroll

\* the loop ends
UnrollEnd ==
    /\ pc = "unroll"
    /\ sat.cycle > HorizonOf(CONF)
    /\ pc' = "unrolled"
    /\ sat' = sat
    /\ UNCHANGED notUnroll

NextInv ==
    \/ UnrollNewSolver
    \/ UnrollCycle
    \/ UnrollEnd

SpecInv == InitInv /\ [][NextInv]_vars

(***************************************************************************)
(* The merge strategy of Procedure 1 on its own: hist holds k_faults, the  *)
(* faulty indexes of the next cycle read from the model, and, after the    *)
(* step, the buckets drawn (merged_indexes) and the partitions before it.  *)
(* The thresholds of the buckets are multiples of n / k_faults; the        *)
(* comparison with them is made on whole numbers, which agrees with the    *)
(* double arithmetic of the code for the k_faults of these runs.           *)
(***************************************************************************)
MaxMergeK == 3

MaxParts == 5

\* the partitionings the step is run on: one register per partition, and
\* a partitioning with a partition of two registers
MergePartitionings ==
    {[i \in 1..m |-> {10 + i}] : m \in 2..MaxParts} \cup {<<{11, 12}, {13}, {14}, {15}>>}

InitMerge ==
    /\ partitions \in MergePartitionings
    /\ partitions_diff = <<BuildPartitionsDiff(partitions), BuildPartitionsDiff(partitions)>>
    /\ \E k_faults \in 1..MaxMergeK :
          \E faulty_indexes_next \in SUBSET (1..Len(partitions)) :
             /\ Cardinality(faulty_indexes_next) > k_faults
             /\ hist = [k_faults |-> k_faults, faulty_indexes_next |-> faulty_indexes_next,
                        merged_indexes |-> <<>>, before |-> <<>>]
    /\ pc = "sat"
    /\ ndebug \in BOOLEAN
    /\ circuit = <<>>
    /\ CONF = <<>>
    /\ adj = <<>>
    /\ perm = NoPerm
    /\ answers = {}
    /\ solver_iter = 0
    /\ pos = 0
    /\ res = "SAT"
    /\ enumerate_comb_faults = {}
    /\ enumerate_faulty_partitions = {}
    /\ unknowns = 0
    /\ rerun = FALSE
    /\ netlist = <<>>
    /\ ld = <<>>
    /\ sat = <<>>

\* the merge strategy on the witness: rand() draws the indexes in some
\* order
MergeStrategy ==
    /\ pc = "sat"
    /\ \E order \in Orders(hist.faulty_indexes_next) :
          LET m == MergePartitions(partitions, partitions_diff, hist.faulty_indexes_next,
                                   order, hist.k_faults)
          IN /\ partitions' = m.partitions
             /\ partitions_diff' = m.partitions_diff
             /\ hist' = [hist EXCEPT !.merged_indexes = Buckets(order, hist.k_faults, 0, <<>>),
                                     !.before = partitions]
    /\ solver_iter' = solver_iter + 1
    /\ pc' = "merged"
    /\ UNCHANGED <<circuit, CONF, ndebug, adj, perm, answers, pos, res,
                   enumerate_comb_faults, enumerate_faulty_partitions, unknowns, rerun,
                   netlist, ld, sat>>

NextMerge == MergeStrategy

SpecMerge == InitMerge /\ [][NextMerge]_vars

(***************************************************************************)
(* The faulty trace of the unrollers with its selectors (utils.cpp).       *)
(* sat = [cycle, faults, prev, cur]: the next cycle to unroll, the signals *)
(* of the selector map of every unrolled cycle, and the values of the last *)
(* two states of the faulty trace under one choice of the free variables.  *)
(***************************************************************************)
\* bound on the selectors set to true in one cycle
MaxFlips == 1

\* a register 6 loading the input 5, 7 = NOT 6, the outputs 8 = 5 AND 7 and
\* 9 = BUF 6; clock 4
CircS ==
    [ins |-> {4, 5}, outs |-> {8, 9}, regs |-> {6},
     cells |-> <<DffPorts("dff_p", 4, 5, 6), UnaryPorts("not", 6, 7),
                 BinaryPorts("and", 5, 7, 8), UnaryPorts("buf", 6, 9)>>]

ScenariosS ==
    {[circ |-> CircS,
      conf |-> Conf(1, d, TRUE, "ALL", FALSE, FALSE, "PROC_2",
                    compute_faultable_signals(CircS, x, xi), al, <<>>)] :
        d \in 1..MaxDelay, xi \in BOOLEAN, x \in {{}, {7}, {8, 9}, {5, 6, 7, 8, 9}},
        al \in {{}, {<<8, FALSE>>}, {<<9, FALSE>>}}}

InitSel ==
    /\ \E sc \in ScenariosS : circuit = sc.circ /\ CONF = sc.conf
    /\ pc = "sel_setup"
    /\ sat = <<>>
    /\ ndebug \in BOOLEAN
    /\ adj = <<>>
    /\ partitions = <<>>
    /\ partitions_diff = <<>>
    /\ perm = NoPerm
    /\ answers = {}
    /\ solver_iter = 0
    /\ pos = 0
    /\ res = "SAT"
    /\ enumerate_comb_faults = {}
    /\ enumerate_faulty_partitions = {}
    /\ unknowns = 0
    /\ rerun = FALSE
    /\ hist = NoHist
    /\ netlist = <<>>
    /\ ld = <<>>

\* build_adjacent_lists and the new solver
SelSetup ==
    /\ pc = "sel_setup"
    /\ adj' = build_adjacent_lists(circuit)
    /\ sat' = [cycle |-> 0, faults |-> <<>>, prev |-> <<>>, cur |-> <<>>]
    /\ pc' = "sel_unroll"
    /\ UNCHANGED <<circuit, CONF, ndebug, partitions, partitions_diff, perm, answers,
                   solver_iter, pos, res, enumerate_comb_faults,
                   enumerate_faulty_partitions, unknowns, rerun, hist, netlist, ld>>

\* one turn of the loop over the cycles, under one value of the variables
\* it creates: the inputs, the selectors and, at cycle 0, the registers
SelUnroll ==
    /\ pc = "sel_unroll"
    /\ sat.cycle <= Horizon2(CONF)
    /\ LET current_faults == SelSigsAt(circuit, adj, CONF.faultable_sigs,
                                       alert_signals_of(CONF), sat.cycle)
       IN \E gin \in [circuit.ins -> BOOLEAN] :
          \E flips \in {z \in SUBSET current_faults : Cardinality(z) <= MaxFlips} :
          \E regvals \in [circuit.regs -> BOOLEAN] :
             sat' = [cycle |-> sat.cycle + 1,
                     faults |-> Append(sat.faults, current_faults),
                     prev |-> sat.cur,
                     cur |-> IF sat.cycle = 0 THEN TraceInit(circuit, gin, regvals, flips)
                             ELSE TraceNext(circuit, sat.cur, gin, flips)]
    /\ pc' = pc
    /\ UNCHANGED <<circuit, CONF, ndebug, adj, partitions, partitions_diff, perm, answers,
                   solver_iter, pos, res, enumerate_comb_faults,
                   enumerate_faulty_partitions, unknowns, rerun, hist, netlist, ld>>

NextSel ==
    \/ SelSetup
    \/ SelUnroll

SpecSel == InitSel /\ [][NextSel]_vars

\* ---------------------------------------------------------------------
\* Procedure 1 alone on a circuit whose alert can be silenced by a fault
\* of a later cycle.

\* a holding register 5, two registers 6 and 7 loading it, the alert
\* 9 = BUF 7; clock 4
CircE ==
    [ins |-> {4}, outs |-> {9}, regs |-> {5, 6, 7},
     cells |-> <<DffPorts("dff_p", 4, 5, 5), DffPorts("dff_p", 4, 5, 6),
                 DffPorts("dff_p", 4, 5, 7), UnaryPorts("buf", 7, 9)>>]

ScenariosE ==
    {[circ |-> CircE,
      conf |-> Conf(k, d, inc, "ALL", en, FALSE, "PROC_1",
                    compute_faultable_signals(CircE, {}, TRUE),
                    {<<9, FALSE>>}, <<>>)] :
        k \in 0..MaxK, d \in 1..MaxDelay, inc \in BOOLEAN, en \in BOOLEAN}

InitBudget == InitWith(ScenariosE)

NextBudget ==
    \/ Setup
    \/ P1Begin
    \/ P1EnterTriple
    \/ P1Unsat
    \/ P1Unknown
    \/ P1SatMerge
    \/ P1SatEnumerate
    \/ P1Exhausted
    \/ P1End

SpecBudget == InitBudget /\ [][NextBudget]_vars

\* ---------------------------------------------------------------------
\* Procedure 1 alone with the optimisation, on a circuit where two
\* pruned partitions are merged.

\* a register 5 loading 7, registers 6 and 7 loading 5, a register 8
\* loading 6, the primary output 9 = BUF 8; clock 4
CircF ==
    [ins |-> {4}, outs |-> {9}, regs |-> {5, 6, 7, 8},
     cells |-> <<DffPorts("dff_p", 4, 7, 5), DffPorts("dff_p", 4, 5, 6),
                 DffPorts("dff_p", 4, 5, 7), DffPorts("dff_p", 4, 6, 8),
                 UnaryPorts("buf", 8, 9)>>]

ScenariosF ==
    {[circ |-> CircF,
      conf |-> Conf(k, 1, inc, "SEQ", en, TRUE, "PROC_1",
                    compute_faultable_signals(CircF, CircSigs(CircF), FALSE),
                    {}, <<>>)] :
        k \in 1..MaxK, inc \in BOOLEAN, en \in BOOLEAN}

InitOptim == InitWith(ScenariosF)

SpecOptim == InitOptim /\ [][NextBudget]_vars

\* ---------------------------------------------------------------------
\* Procedure 1 alone with the merge strategy, on a circuit that is merged
\* more than once.
ScenariosH ==
    {[circ |-> CircF,
      conf |-> Conf(k, 1, inc, "SEQ", FALSE, opt, "PROC_1",
                    compute_faultable_signals(CircF, CircSigs(CircF), FALSE),
                    {}, <<>>)] :
        k \in 0..MaxK, inc \in BOOLEAN, opt \in BOOLEAN}

InitShrink == InitWith(ScenariosH)

NextShrink ==
    \/ Setup
    \/ P1Begin
    \/ P1EnterTriple
    \/ P1Unsat
    \/ P1Unknown
    \/ P1SatMerge
    \/ P1End

SpecShrink == InitShrink /\ [][NextShrink]_vars

\* ---------------------------------------------------------------------
\* The driver on the configurations of Spec and on a circuit whose alert
\* reads the register that drives the primary output.

\* a holding register 5, the alert 9 = BUF 5, the primary output
\* 10 = BUF 5; clock 4
CircP ==
    [ins |-> {4}, outs |-> {9, 10}, regs |-> {5},
     cells |-> <<DffPorts("dff_p", 4, 5, 5), UnaryPorts("buf", 5, 9),
                 UnaryPorts("buf", 5, 10)>>]

ScenariosP ==
    {[circ |-> CircP,
      conf |-> Conf(k, 0, inc, "ALL", FALSE, FALSE, "PROC_2",
                    compute_faultable_signals(CircP, {10}, TRUE),
                    {<<9, FALSE>>}, <<>>)] : k \in 1..MaxK, inc \in BOOLEAN}

InitPrune == InitWith(Scenarios \cup ScenariosP)

SpecPrune == InitPrune /\ [][Next]_vars

\* ---------------------------------------------------------------------
\* Procedure 1 alone, started from a partitioning file.

\* the files: the trivial and the one-partition partitioning of the
\* registers 5 and 6 of CircD, a register listed in two partitions, a
\* register left out, an empty partition, a combinational signal listed
PartitionFiles ==
    {<<<<5>>, <<6>>>>, <<<<5, 6>>>>, <<<<5, 6>>, <<6>>>>, <<<<5>>>>,
     <<<<5>>, <<>>, <<6>>>>, <<<<5>>, <<6, 7>>>>}

ScenariosG ==
    {[circ |-> CircD,
      conf |-> Conf(1, 1, TRUE, "SEQ", en, FALSE, "PROC_1",
                    compute_faultable_signals(CircD, CircSigs(CircD), FALSE),
                    {}, jdata)] : en \in BOOLEAN, jdata \in PartitionFiles}

InitFile == InitWith(ScenariosG)

SpecFile == InitFile /\ [][NextBudget]_vars

(***************************************************************************)
(* Properties of the two procedures                                        *)
(***************************************************************************)
IsPartitioning(parts, regs) ==
    /\ \A i \in 1..Len(parts) : parts[i] # {}
    /\ \A i, j \in 1..Len(parts) : i # j => parts[i] \cap parts[j] = {}
    /\ UNION {parts[i] : i \in 1..Len(parts)} = regs

\* every query Procedure 1 asks under CONF, asked of a fresh solver on the
\* partitioning parts, has no model
StableOn(parts) ==
    \A i \in 1..Len(Triples1(CONF)) :
        Query1(circuit, adj, CONF, parts,
               <<BuildPartitionsDiff(parts), BuildPartitionsDiff(parts)>>,
               NoPerm, {}, Triples1(CONF)[i]) = {}

\* Procedure 1 has just ended
P1JustEnded ==
    /\ hist.p1_done
    /\ pc = IF CONF.procedure # "PROC_1" THEN "proc2" ELSE "done"

\* C1: when Procedure 1, started from the trivial partitioning and merging
\* (not enumerating), has finished with every loop ended by UNSAT, the
\* query of every triple it enumerated has no model on the final
\* partitioning
C1_FinalPartitioningStable ==
    (/\ P1JustEnded
     /\ ~rerun
     /\ CONF.initial_partition = <<>>
     /\ ~CONF.enumerate_exploitable
     /\ ~hist.incomplete)
    => StableOn(partitions)

C2_State ==
    (pc \in {"proc1", "p1_triple", "p1_iter", "proc2", "done"}
     /\ IsPartitioning(hist.start, circuit.regs))
    => IsPartitioning(partitions, circuit.regs)

C2_Step ==
    (pc = "p1_iter" /\ pc' \in {"p1_iter", "p1_triple"})
    => \A i \in 1..Len(partitions) :
          \E j \in 1..Len(partitions') : partitions[i] \subseteq partitions'[j]

\* C2: from an initial partitioning that is a partition of the register
\* outputs, the partitioning is a partition of them at every point of
\* Procedure 1 (non-empty, pairwise disjoint, covering), and every step
\* of its loop leaves each partition whole inside a partition
C2_StaysPartition == [](C2_State) /\ [][C2_Step]_vars

\* a merge has replaced partitions by fewer
C2_Merged ==
    /\ pc = "p1_iter"
    /\ hist.merges > 0
    /\ IsPartitioning(hist.start, circuit.regs)
    /\ Len(partitions) < Len(hist.start)

\* C3: a second run of Procedure 1 from the partitioning a first complete
\* run wrote gets no SAT answer, merges nothing and ends with the
\* partitioning it started from
C3_SecondRunIdle ==
    (rerun /\ hist.first_complete /\ ~CONF.enumerate_exploitable
     /\ pc \in {"p1_triple", "p1_iter", "proc2", "done"})
    => (~hist.sat1 /\ hist.merges = 0 /\ partitions = hist.start)

\* C4: after check() returned UNKNOWN the loop of the triple or pair is
\* over and no model value has been read
C4_UnknownEndsLoop ==
    res = "UNKNOWN" => (~hist.read /\ pc \notin {"p1_iter", "p2_iter", "abort"})

\* C5: a loop of Procedure 1 that ended on the iteration bound, and not on
\* an answer of the solver, has made its MAX_ITER iterations (less the one
\* the loop's initialiser takes)
C5_OwnIterations ==
    (hist.exit = "cap" /\ hist.exit_proc = 1) => hist.exit_iters >= MAX_ITER - 1

\* C6: in Procedure 2 a SAT witness has no selector true, at any cycle, of
\* a signal an earlier witness contained, and no partition an earlier
\* witness contained
C6_NeverWitnessedAgain ==
    (hist.proc = 2 /\ res = "SAT" /\ hist.read /\ unknowns = 0)
    => (/\ UNION {hist.w.comb[c] : c \in DOMAIN hist.w.comb} \cap hist.prev_comb = {}
        /\ hist.w.init \cap hist.prev_parts = {})

\* C7 as stated: with k = 0 Procedure 1 issues a query
C7_Procedure1Queries ==
    (CONF.k = 0 /\ hist.p1_done) => hist.queries1 >= 1

\* C7: with k = 0 no query of either procedure has a model and nothing is
\* merged; Procedure 1 issues no query at all, Procedure 2 issues none
\* when increasing_k, and when not increasing_k its one pair allows no
\* combinational fault and no faulty partition
C7_NoFaultNoModel ==
    CONF.k = 0 =>
        (/\ hist.queries1 = 0 /\ ~hist.sat1 /\ ~hist.sat2 /\ hist.merges = 0
         /\ pc \notin {"start", "abort"} => partitions = hist.start
         /\ CONF.increasing_k => hist.queries2 = 0
         /\ pc = "p2_iter" =>
               (/\ answers = {}
                /\ Pairs2(CONF)[pos] = [k_faults |-> 0, k_f_comb |-> 0]))

\* with k = 0 both procedures have run and Procedure 2 has had its query
\* answered UNSAT
C7_ZeroBudgetRun ==
    /\ CONF.k = 0
    /\ CONF.procedure = "BOTH"
    /\ hist.p1_done
    /\ pc = "done"
    /\ hist.queries2 = 1
    /\ res = "UNSAT"

\* C8 as stated: with no faultable signal no check returns SAT
C8_NeverSat ==
    CONF.faultable_sigs = {} => (~hist.sat1 /\ ~hist.sat2)

\* C8: with no faultable signal the models of a query have no selector
\* true and differ in a register at cycle 0, so a query that allows no
\* faulty partition has none
C8_RegisterFaultsOnly ==
    (CONF.faultable_sigs = {} /\ pc \in {"p1_iter", "p2_iter"})
    => (/\ \A w \in answers :
              /\ \A c \in DOMAIN w.comb : w.comb[c] = {}
              /\ w.init # {}
        /\ (pc = "p1_iter" /\ k_f_part_of(Triples1(CONF)[pos]) = 0) => answers = {}
        /\ (pc = "p2_iter" /\ k_f_part_of(Pairs2(CONF)[pos]) = 0) => answers = {})

\* with no faultable signal a query has a model, and a query that allows
\* no faulty partition has been answered UNSAT
C8_SatWithoutSelectors ==
    /\ CONF.faultable_sigs = {}
    /\ pc = "p1_iter"
    /\ answers # {}
    /\ hist.exit = "nonsat"
    /\ pos > 1
    /\ k_f_part_of(Triples1(CONF)[pos - 1]) = 0

(***************************************************************************)
(* Properties of the loader                                                *)
(***************************************************************************)
\* the cells of m_cells named after item n of the netlist
CellsNamed(n) == {i \in 1..Len(ld.m_cells) : ld.names[i] = n}

RegistersFirst ==
    \A i, j \in 1..Len(ld.m_cells) :
        (i < j /\ is_register(ld.m_cells[j].type)) => is_register(ld.m_cells[i].type)

InputsBefore ==
    \A i \in 1..Len(ld.m_cells) :
        ~is_register(ld.m_cells[i].type) =>
            CombInputs(ld.m_cells[i]) \subseteq
                (ConstSigs \cup ld.m_in_ports \cup ld.m_reg_outs
                    \cup {ld.m_cells[j].y : j \in 1..(i - 1)})

Producers(sig) ==
    (IF sig \in ld.m_in_ports THEN {0} ELSE {})
        \cup {i \in 1..Len(ld.m_cells) : ld.m_cells[i].y = sig}

\* C10: a cell whose output is already known makes the load fail with
\* ILLEGAL_NAME_REDECLARATION, so in a loaded circuit every signal has a
\* single producer
C10_SingleProducer ==
    /\ pc = "loaded" =>
           \A sig \in ld.m_signals \ ConstSigs : Cardinality(Producers(sig)) = 1
    /\ pc \in {"failed", "abort"} =>
           \A n \in 1..Len(netlist.cells) :
               (/\ n = ld.next
                /\ cell_type_from_string(netlist.cells[n].type) # "CELL_NONE"
                /\ netlist.cells[n].y \in ld.m_signals
                /\ netlist.cells[n].y \notin CycleInputs(netlist.cells[n].type, netlist.cells[n]))
               => ld.error = "ILLEGAL_NAME_REDECLARATION"

\* the inputs of a cell the loader compares with its output
CheckedInputs(cell) ==
    IF is_register(cell.type)
    THEN {cell.c} \cup (IF dff_has_reset(cell.type) THEN {cell.r} ELSE {})
                  \cup (IF dff_has_enable(cell.type) THEN {cell.e} ELSE {})
    ELSE CombInputs(cell)

\* the cells loop stopped at item ld.next, whose type is a cell type
StoppedAtCell ==
    /\ pc \in {"failed", "abort"}
    /\ ld.next <= Len(netlist.cells)
    /\ cell_type_from_string(netlist.cells[ld.next].type) # "CELL_NONE"

ClockErrors == {"ILLEGAL_CLOCK_SIGNAL", "ILLEGAL_MULTIPLE_CLOCKS", "ILLEGAL_CLOCK_EDGE"}

\* the clock checks have been made
ClockChecked ==
    \/ pc \in {"ld_scan", "loaded"}
    \/ pc = "failed" /\ ld.error \in ClockErrors

RegisterCells == {i \in 1..Len(ld.m_cells) : is_register(ld.m_cells[i].type)}

ConstantClock == \E i \in RegisterCells : ld.m_cells[i].c \in ConstSigs

DifferentClocks == \E i, j \in RegisterCells : ld.m_cells[i].c # ld.m_cells[j].c

MixedEdges ==
    \E i, j \in RegisterCells :
        dff_clock_trigger(ld.m_cells[i].type) # dff_clock_trigger(ld.m_cells[j].type)

FirstRegister == CHOOSE i \in RegisterCells : \A j \in RegisterCells : i <= j

ClocksAgree ==
    /\ ~ConstantClock
    /\ ~DifferentClocks
    /\ ~MixedEdges
    /\ \A i \in RegisterCells : ld.m_cells[i].c = ld.m_sig_clock

\* C12: a loaded circuit has one clock, not a constant, and one edge; a
\* netlist with a constant clock is rejected with ILLEGAL_CLOCK_SIGNAL, one
\* with different clocks with ILLEGAL_MULTIPLE_CLOCKS, one with mixed edges
\* with ILLEGAL_CLOCK_EDGE, in whatever order the registers are declared
C12_ErrorOfTheViolation ==
    /\ pc = "loaded" => ClocksAgree
    /\ ClockChecked =>
           /\ ConstantClock => ld.error = "ILLEGAL_CLOCK_SIGNAL"
           /\ (~ConstantClock /\ DifferentClocks) => ld.error = "ILLEGAL_MULTIPLE_CLOCKS"
           /\ (~ConstantClock /\ ~DifferentClocks /\ MixedEdges)
                  => ld.error = "ILLEGAL_CLOCK_EDGE"

\* C12: a loaded circuit has one clock, not a constant, and one edge; the
\* clock checks reject every other netlist, with ILLEGAL_CLOCK_SIGNAL when
\* the clock of the first register is a constant, with
\* ILLEGAL_MULTIPLE_CLOCKS when it is not and a later register has another
\* clock (a constant included), and with ILLEGAL_CLOCK_EDGE when all
\* registers have the same clock and the edges are mixed
C12_ErrorOfTheFirstRegister ==
    /\ pc \in {"ld_scan", "loaded"} => ClocksAgree
    /\ (pc = "failed" /\ ld.error \in ClockErrors) =>
           /\ RegisterCells # {}
           /\ ld.error = IF ld.m_cells[FirstRegister].c \in ConstSigs
                         THEN "ILLEGAL_CLOCK_SIGNAL"
                         ELSE IF DifferentClocks THEN "ILLEGAL_MULTIPLE_CLOCKS"
                         ELSE "ILLEGAL_CLOCK_EDGE"
           /\ ld.error = "ILLEGAL_CLOCK_EDGE" => MixedEdges

\* a netlist whose second register has a constant clock is rejected with
\* ILLEGAL_MULTIPLE_CLOCKS
C12_ConstantClockSecond ==
    /\ pc = "failed"
    /\ ld.error = "ILLEGAL_MULTIPLE_CLOCKS"
    /\ ConstantClock

(***************************************************************************)
(* Properties of the adjacency lists                                       *)
(***************************************************************************)
\* the signals reached from the set R through combinational cells
RECURSIVE Forward(_, _)
Forward(circ, R) ==
    LET more == {circ.cells[i].y :
                    i \in {j \in 1..Len(circ.cells) :
                              /\ ~is_register(circ.cells[j].type)
                              /\ CombInputs(circ.cells[j]) \cap R # {}}}
    IN IF more \subseteq R THEN R ELSE Forward(circ, R \cup more)

ReachableOuts(circ, sig) == Forward(circ, {sig}) \cap circ.outs

ConnOutsReachable ==
    \A sig \in CircSigs(circuit) : get_conn_outs(adj, sig) = ReachableOuts(circuit, sig)

\* C13: after build_adjacent_lists on a loaded circuit, conn_outs of every
\* signal (constant, input port, register output, combinational output) is
\* the set of the output ports reached from it through combinational
\* cells, the signal itself included when it is an output port
C13_ConnOutsAreReachableOuts ==
    pc = "adjacent" => ConnOutsReachable

\* the lists are built for a circuit with a register, in which two signals
\* point to one set object and a signal reaches two output ports
C13_SharedSets ==
    /\ pc = "adjacent"
    /\ circuit.regs # {}
    /\ \E s1, s2 \in CircSigs(circuit) :
          s1 # s2 /\ adj.outs[s1] = adj.outs[s2] /\ adj.outs[s1] > 1
    /\ \E sig \in CircSigs(circuit) : Cardinality(get_conn_outs(adj, sig)) = 2

(***************************************************************************)
(* Properties of fault_spec_t                                              *)
(***************************************************************************)
\* the variables no call of induce_fault returned
FreeVars == (1..sat.nvars) \ {f[3] : f \in sat.faults}

\* C14: in every model of the clauses the variable induce_fault returned
\* is normal XOR f0: normal when the selector is 0, NOT normal when it is
\* 1; and the clauses constrain no other variable: every assignment of
\* the variables that are not returned by induce_fault, normal and f0
\* among them, is part of exactly one model
C14_NewValueIsNormalXorF0 ==
    pc = "solver" =>
        /\ \A m \in Models(sat) : \A f \in sat.faults :
               /\ m[f[3]] = induce_fault(m[f[1]], m[f[2]])
               /\ ~m[f[2]] => m[f[3]] = m[f[1]]
               /\ m[f[2]] => m[f[3]] = ~m[f[1]]
        /\ \A a \in [FreeVars -> BOOLEAN] :
               Cardinality({m \in Models(sat) : \A v \in FreeVars : m[v] = a[v]}) = 1

\* induce_fault was called on a variable induce_fault returned and twice
\* on one variable
C14_FaultOnFault ==
    /\ pc = "solver"
    /\ \E f, g \in sat.faults : g[1] = f[3]
    /\ \E f, g \in sat.faults : f # g /\ f[1] = g[1]


\* the labels a signal appears under in the ports and the net names
LabelsOf(sig) ==
    UNION {{VerilogId(name, p - 1) : p \in {q \in 1..Len(ld.m_name_bits[name]) : ld.m_name_bits[name][q] = sig}} : name \in DOMAIN ld.m_name_bits}

\* C15: after loading, the label stored for a signal is the most preferred
\* of the labels the signal appears under: none of them is preferred to it
C15_StoredLabelIsMostPreferred ==
    pc = "named" =>
        \A sig \in DOMAIN ld.m_bit_name :
            \A vid \in LabelsOf(sig) : ~VerilogIdLess(vid, ld.m_bit_name[sig])


\* the signals of the backward cone of the output ports of the subcircuit,
\* cut at its input ports
RECURSIVE ConeSigs(_, _, _)
ConeSigs(top, m_in_ports, S) ==
    LET more == S \cup UNION {CombInputs(top.cells[i]) \cup RegInputs(top.cells[i]) :
                                i \in {j \in 1..Len(top.cells) :
                                         top.cells[j].y \in S \ m_in_ports}}
    IN IF more = S THEN S ELSE ConeSigs(top, m_in_ports, more)

\* the positions of the cells of the cone
ConeCells(top, m_in_ports, m_out_ports) ==
    {i \in 1..Len(top.cells) :
        top.cells[i].y \in ConeSigs(top, m_in_ports, m_out_ports) \ m_in_ports}

ConeReadsMissingInput ==
    \E i \in ConeCells(ld.top, ld.m_in_ports, ld.m_out_ports) :
        \E sig \in CombInputs(ld.top.cells[i]) \cup RegInputs(ld.top.cells[i]) :
            sig \in ld.top.ins /\ sig \notin ld.m_in_ports

\* C16: an extraction that does not fail copies exactly the cells of the
\* cone, and every input of a copied cell is a constant, an input port of
\* the subcircuit or the output of a copied cell; when a cell of the cone
\* reads an input of the top circuit that is no input of the subcircuit,
\* the extraction fails with ILLEGAL_SUBCIRCUIT_MISSING_INPUT
C16_ExtractionYieldsClosedSlice ==
    /\ pc = "extracted" =>
          /\ ld.m_cells = CopyCells(ld.top.cells, ConeCells(ld.top, ld.m_in_ports, ld.m_out_ports), 1)
          /\ \A i \in 1..Len(ld.m_cells) :
                CombInputs(ld.m_cells[i]) \cup RegInputs(ld.m_cells[i])
                    \subseteq ConstSigs \cup ld.m_in_ports \cup CellOuts(ld.m_cells)
    /\ pc \in {"extracted", "sub_error"} /\ ConeReadsMissingInput =>
          pc = "sub_error" /\ ld.error = "ILLEGAL_SUBCIRCUIT_MISSING_INPUT"

\* an extraction has copied a register and a combinational cell and has
\* left out the cell that makes an input port of the subcircuit
C16_CutAtInputPort ==
    /\ pc = "extracted"
    /\ \E i, j \in 1..Len(ld.m_cells) :
          is_register(ld.m_cells[i].type) /\ ~is_register(ld.m_cells[j].type)
    /\ \E i \in 1..Len(ld.top.cells) :
          ld.top.cells[i].y \in ld.m_in_ports /\ ld.top.cells[i].y \in ld.visited_sigs

\* an extraction has failed on the clock of a register of the cone
C16_MissingClock ==
    /\ pc = "sub_error"
    /\ ld.error = "ILLEGAL_SUBCIRCUIT_MISSING_INPUT"
    /\ 4 \notin ld.m_in_ports


\* the query of the pending iteration of Procedure 1, with the unit
\* clauses of optim_at_least_2_conn_parts or without them
PendingQuery1(optim) ==
    Query1(circuit, adj, [CONF EXCEPT !.optim_atleast2 = optim], partitions,
           partitions_diff, perm, enumerate_comb_faults, Triples1(CONF)[pos])

\* C17: in a run without the optimisation and with k >= 1, the pending
\* query of Procedure 1 is SAT with the pruning unit clauses if and only
\* if it is SAT without them
C17_PruningKeepsVerdict ==
    pc = "p1_iter" /\ solver_iter < MAX_ITER /\ ~CONF.optim_atleast2 /\ CONF.k >= 1 =>
        ((PendingQuery1(TRUE) = {}) <=> (PendingQuery1(FALSE) = {}))


\* the golden traces of the models of the unit clauses on the golden trace
GoldenTracesOf(units) ==
    LET H == HorizonOf(CONF)
        traces == {TraceTo(circuit, gin, greg, [c \in 0..H |-> {}], H) :
                      gin \in [0..H -> [circuit.ins -> BOOLEAN]],
                      greg \in [circuit.regs -> BOOLEAN]}
    IN {tr \in traces : \A u \in units : u.trace = "golden" => tr[u.step + 1][u.sig] = u.bit}

\* C18 as stated: after the unrolling loop the golden state of every cycle
\* of the loop holds the bits of the invariants in every model
C18_InvariantsForcedAtEveryCycle ==
    pc = "unrolled" =>
        \A tr \in GoldenTracesOf(sat.units) : \A cycle \in 0..HorizonOf(CONF) :
            assert_invariants_at_step(tr, CONF.invariant_list, cycle)

\* C18: after the unrolling loop the unit clauses on the invariant bits
\* are those of cycle 0, one per bit, and no other; the golden state of
\* cycle 0 holds the bits of the invariants in every model
C18_InvariantsForcedAtCycleZero ==
    pc = "unrolled" =>
        /\ \A cycle \in 0..HorizonOf(CONF) :
              \A inv \in CONF.invariant_list \ CONF.alert_list :
                 ([trace |-> "golden", step |-> cycle, sig |-> inv[1], bit |-> inv[2]]
                     \in sat.units) <=> (cycle = 0)
        /\ \A tr \in GoldenTracesOf(sat.units) :
              assert_invariants_at_step(tr, CONF.invariant_list, 0)

\* the loop has produced a cycle after cycle 0 and a model breaks an
\* invariant there
C18_InvariantBrokenAtCycleOne ==
    /\ pc = "unrolled"
    /\ CONF.invariant_list # {}
    /\ HorizonOf(CONF) >= 1
    /\ \E tr \in GoldenTracesOf(sat.units) :
          ~assert_invariants_at_step(tr, CONF.invariant_list, 1)


\* the entries of a vector at the positions outside a set, in their order
RECURSIVE KeptEntries(_, _, _)
KeptEntries(vec, removed, i) ==
    IF i > Len(vec) THEN <<>>
    ELSE (IF i \in removed THEN <<>> ELSE <<vec[i]>>) \o KeptEntries(vec, removed, i + 1)

\* C19: after the merge step on n > k_faults faulty indexes, every faulty
\* index is in exactly one bucket, there are exactly k_faults buckets, none
\* is empty, none holds more than ceil(n / k_faults) indexes, and the
\* partitions are those that were not faulty followed by one partition per
\* bucket, the union of its members
C19_BucketsOfTheMerge ==
    pc = "merged" =>
        LET mi == hist.merged_indexes
            faulty == hist.faulty_indexes_next
            n == Cardinality(faulty)
            places(fi) == {<<b, j>> \in (1..Len(mi)) \X (1..n) : j <= Len(mi[b]) /\ mi[b][j] = fi}
        IN /\ \A fi \in faulty : Cardinality(places(fi)) = 1
           /\ \A b \in 1..Len(mi) : \A j \in 1..Len(mi[b]) : mi[b][j] \in faulty
           /\ Len(mi) = hist.k_faults
           /\ \A b \in 1..Len(mi) : mi[b] # <<>>
           /\ \A b \in 1..Len(mi) : Len(mi[b]) <= (n + hist.k_faults - 1) \div hist.k_faults
           /\ partitions = KeptEntries(hist.before, faulty, 1) \o
                 [b \in 1..Len(mi) |-> UNION {hist.before[mi[b][j]] : j \in 1..Len(mi[b])}]

\* five faulty indexes have been merged into three buckets
C19_FiveIntoThree ==
    /\ pc = "merged"
    /\ Cardinality(hist.faulty_indexes_next) = 5
    /\ hist.k_faults = 3
    /\ Len(hist.merged_indexes[3]) = 1


\* C20: every SAT iteration of Procedure 1 in enumeration mode records a
\* combinational fault signal that was not recorded before, and the query
\* of the next iteration does not return its witness again
C20_SatIterationRecordsNewFault ==
    [][P1SatEnumerate =>
          /\ enumerate_comb_faults' # enumerate_comb_faults
          /\ (pc' = "p1_iter" => hist'.w \notin answers')]_vars


\* C21: in every unrolled cycle the output of a combinational cell has a
\* selector iff it is faultable and, after cycle 0, reaches an alert
\* signal through combinational cells; no register output has a selector;
\* and in the last unrolled state the faulty value of a cell output
\* without selector (a register output after cycle 0 included) is the
\* function of the cell on the faulty trace
C21_SelectorPlacement ==
    pc = "sel_unroll" =>
        /\ \A c \in 1..Len(sat.faults) :
              /\ \A y \in CombOuts(circuit) :
                    y \in sat.faults[c] <=>
                       /\ y \in CONF.faultable_sigs
                       /\ c > 1 => ReachableOuts(circuit, y) \cap alert_signals_of(CONF) # {}
              /\ sat.faults[c] \cap circuit.regs = {}
        /\ sat.cycle >= 1 =>
              \A i \in 1..Len(circuit.cells) :
                 LET cell == circuit.cells[i]
                 IN (cell.y \notin sat.faults[sat.cycle]
                        /\ (is_register(cell.type) => sat.cycle > 1))
                    => sat.cur[cell.y] = CellEval(cell, sat.prev, sat.cur)

\* a cycle after cycle 0 has been unrolled in which 7, faultable and
\* reaching the alert 8, has a selector and the faultable 9 has none
C21_SelectorOnlyTowardsAlert ==
    /\ pc = "sel_unroll"
    /\ sat.cycle >= 2
    /\ 7 \in sat.faults[2]
    /\ 9 \in CONF.faultable_sigs /\ 9 \notin sat.faults[2]
    /\ 9 \in sat.faults[1]

\* ---------------------------------------------------------------------
\* C22: every triple of the loops of Procedure 1 has non-negative
\* budgets k_f_part, k_f_comb_init, k_f_comb_next that sum to k_faults,
\* with k_f_comb_next <= k_faults - 1; every witness of a SAT answer has
\* at most k_f_comb_init selectors true at cycle 0, at most k_f_comb_next
\* over the cycles >= 1, at most k_f_part partitions differing at cycle 0
\* and more than k_faults at cycle 1, and the assertions of the driver
\* on the witness hold.
C22_TripleWithinBudget(t) ==
    /\ k_f_part_of(t) >= 0
    /\ k_f_comb_init_of(t) >= 0
    /\ t.k_f_comb_next >= 0
    /\ k_f_part_of(t) + k_f_comb_init_of(t) + t.k_f_comb_next = t.k_faults
    /\ t.k_f_comb_next <= t.k_faults - 1

C22_WitnessWithinBudget(w, t) ==
    /\ Cardinality(w.comb[0]) <= k_f_comb_init_of(t)
    /\ SumCard([c \in 1..Horizon1(CONF) |-> w.comb[c]], 1) <= t.k_f_comb_next
    /\ Cardinality(w.init) <= k_f_part_of(t)
    /\ Cardinality(w.next) > t.k_faults
    /\ P1WitnessAsserts(w, t)

C22_FaultBudget ==
    /\ pc # "start" =>
         \A i \in 1..Len(Triples1(CONF)) : C22_TripleWithinBudget(Triples1(CONF)[i])
    /\ (pc = "p1_iter" /\ solver_iter < MAX_ITER) =>
         \A w \in answers : C22_WitnessWithinBudget(w, Triples1(CONF)[pos])
    /\ hist.proc = 1 => pc # "abort"

\* a witness that spends its budget of the later cycles: one partition
\* faulted at cycle 0 and the selector of the alert true at cycle 1
C22_LaterCycleBudgetSpent ==
    /\ pc = "p1_iter"
    /\ hist.read
    /\ Cardinality(hist.w.init) = 1
    /\ hist.w.comb[0] = {}
    /\ hist.w.comb[1] = {9}
    /\ Cardinality(hist.w.next) = 3

\* ---------------------------------------------------------------------
\* C23: with optim_atleast2, at every query of Procedure 1 a partition
\* of the current partitioning whose registers reach, through conn_regs,
\* registers of two or more distinct current partitions can still differ
\* at cycle 0: the permanent clauses do not force every term of its
\* part_diff_0 to false.
C23_ReachedPartitions(idx) ==
    {j \in 1..Len(partitions) :
        \E r \in partitions[idx] : get_conn_regs(adj, r) \cap partitions[j] # {}}

C23_ReachingPartitionStaysFaultable ==
    (pc = "p1_iter" /\ solver_iter < MAX_ITER /\ CONF.optim_atleast2) =>
        LET clauses == P1IterPerm(circuit, adj, CONF, partitions, partitions_diff, perm,
                                  enumerate_comb_faults)
        IN \A idx \in 1..Len(partitions) :
              Cardinality(C23_ReachedPartitions(idx)) >= 2 =>
                  ~(partitions_diff[1][idx] \subseteq clauses.noDiff)

\* ---------------------------------------------------------------------
\* C24: for a netlist that passed the checks of the loader, every scan
\* of the cell list of the linearization emits at least one cell that
\* was not emitted before, until all cells are emitted; so the while
\* loop ends.
C24_EveryScanEmitsACell ==
    (pc = "ld_scan" /\ Len(ld.cell_order) # Len(ld.m_cells)) =>
        LET st == ScanPass(ld.m_cells, 1,
                           [visited_sig |-> ld.visited_sig,
                            visited_cell |-> ld.visited_cell,
                            cell_order |-> ld.cell_order])
        IN Len(st.cell_order) > Len(ld.cell_order)

\* ---------------------------------------------------------------------
\* C25: a partition file is accepted only if it describes a valid
\* partitioning of the registers: every partition non-empty and made of
\* register outputs, all register outputs covered, no register in two
\* partitions; with any other file the run does not get to Procedure 1.
C25_ValidPartitioning(parts) ==
    /\ \A i \in 1..Len(parts) : parts[i] # {} /\ parts[i] \subseteq circuit.regs
    /\ UNION {parts[i] : i \in 1..Len(parts)} = circuit.regs
    /\ \A i, j \in 1..Len(parts) : i # j => parts[i] \cap parts[j] = {}

C25_OnlyValidFileAccepted ==
    (pc \notin {"start", "abort"} /\ CONF.initial_partition # <<>>) =>
        C25_ValidPartitioning(hist.start)

\* ---------------------------------------------------------------------
\* C26: with the merge strategy, a SAT iteration of Procedure 1 whose
\* witness has n partitions differing at cycle 1 takes n - k_faults >= 1
\* partitions away and leaves at least k_faults; a partitioning of at
\* most k_faults partitions is not merged, and a run merges at most
\* |registers| - 1 times.
C26_MergeShrinks ==
    LET n == Cardinality(hist'.w.next)
        k_faults == Triples1(CONF)[pos].k_faults
    IN /\ n - k_faults >= 1
       /\ Len(partitions') = Len(partitions) - (n - k_faults)
       /\ Len(partitions') >= k_faults
       /\ Len(partitions) > k_faults

C26_EveryMergeShrinks ==
    /\ [](hist.merges <= Cardinality(circuit.regs) - 1)
    /\ [][(P1SatMerge /\ pc' = "p1_iter") => C26_MergeShrinks]_vars

\* a run that merged twice
C26_MergedTwice ==
    /\ pc = "p1_iter"
    /\ hist.merges = 2
    /\ Len(partitions) < Len(hist.start)

\* ---------------------------------------------------------------------
\* C27: throughout Procedure 1 the vectors partitions, part_diff_0 and
\* part_diff_1 have the same length, and under every valuation of the
\* golden and faulty registers part_diff_c[i] is true exactly when some
\* register of partitions[i] differs between the two traces at cycle c;
\* also after every merge.
C27_DiffOfPartition(c, g, f) ==
    TrueDiffs(partitions_diff[c], g, f)
        = {i \in 1..Len(partitions) : \E r \in partitions[i] : g[r] # f[r]}

C27_DiffVectorsFollowPartitions ==
    pc \in {"p1_triple", "p1_iter"} =>
        /\ Len(partitions_diff[1]) = Len(partitions)
        /\ Len(partitions_diff[2]) = Len(partitions)
        /\ \A g, f \in [circuit.regs -> BOOLEAN] :
              C27_DiffOfPartition(1, g, f) /\ C27_DiffOfPartition(2, g, f)

\* after two merges, with a partition that holds two registers
C27_AfterSecondMerge ==
    /\ pc = "p1_iter"
    /\ hist.merges = 2
    /\ \E i \in 1..Len(partitions) : Cardinality(partitions[i]) >= 2
    /\ Len(partitions_diff[1]) = Len(partitions)

\* ---------------------------------------------------------------------
\* C28: for every (k_faults, k_f_comb) pair with k_faults >= 1, the
\* first query of Procedure 2 has a model with the clauses of the
\* up-front pruning exactly when it has one without them.
C28_FirstQuery2(clauses) ==
    Query2(circuit, adj, CONF, partitions_diff[1], clauses, {}, {}, Pairs2(CONF)[pos])

C28_PruningKeepsAttack ==
    (/\ pc = "p2_iter"
     /\ solver_iter < MAX_ITER
     /\ enumerate_comb_faults = {}
     /\ enumerate_faulty_partitions = {}
     /\ Pairs2(CONF)[pos].k_faults >= 1) =>
        ((C28_FirstQuery2(P2Optimizations(circuit, adj, CONF, partitions,
                                          partitions_diff[1])) = {})
            <=> (C28_FirstQuery2(NoPerm) = {}))

\* ---------------------------------------------------------------------
\* C29: every signal that has a fault selector at a cycle t > 0 has one
\* at cycle 0, so every enumerated fault signal is found in the selector
\* map of cycle 0 when the driver looks it up.
C29_SelectorsAt(cycle) ==
    SelSigsAt(circuit, adj, CONF.faultable_sigs, alert_signals_of(CONF), cycle)

C29_LaterSelectorsAreInitialSelectors ==
    pc \notin {"start", "sel_setup"} =>
        /\ \A t \in 1..(MaxDelay + 1) : C29_SelectorsAt(t) \subseteq C29_SelectorsAt(0)
        /\ enumerate_comb_faults \subseteq C29_SelectorsAt(0)
        /\ \A w \in answers : \A c \in DOMAIN w.comb : w.comb[c] \subseteq C29_SelectorsAt(0)

\* a signal enumerated from a witness that faults it at cycle 1 only is
\* looked up in the map of cycle 0
C29_EnumeratedFromLaterCycle ==
    /\ pc = "p1_iter"
    /\ CONF.enumerate_exploitable
    /\ hist.read
    /\ hist.w.comb[0] = {}
    /\ hist.w.comb[1] # {}
    /\ hist.w.comb[1] \subseteq enumerate_comb_faults

\* ---------------------------------------------------------------------
\* the faults of cycle 0 the witness of a step adds to the enumerated ones
C30_NewFaultAtCycleZero ==
    (hist'.w.comb[0] \ enumerate_comb_faults)
        \cup (hist'.w.init \ enumerate_faulty_partitions) # {}

\* the first half: a SAT iteration enumerates something new
C30_SatWitnessIsNew == [][P2Sat => C30_NewFaultAtCycleZero]_vars

\* C30: every SAT witness of Procedure 2 has a fault selector true at
\* cycle 0 or a partition differing at cycle 0 that was not enumerated
\* before, and the query loop of every (k_faults, k_f_comb) pair is left
\* on an UNSAT answer.
C30_Procedure2Progress ==
    /\ C30_SatWitnessIsNew
    /\ [][(pc = "p2_iter" /\ pc' = "p2_pair") => res' = "UNSAT"]_vars

====
